---- MODULE Spec2Model ----
(***************************************************************************)
(* Citation resolution core of Citate-Genie: the author-date search engine *)
(* (engines/author_year_search.py), the batch lookups built on it          *)
(* (search_multiple, AuthorDateProcessor.process_document) and the         *)
(* de-duplication of extracted citations (author_year_extractor.py).       *)
(*                                                                         *)
(* The module holds several specifications over one set of variables:      *)
(*   Spec       one call of AuthorDateEngine.search                        *)
(*   SpecScore  _calculate_confidence and the per-provider adjustments     *)
(*   SpecBatch  search_multiple and the parallel lookup of                 *)
(*              process_document                                           *)
(*   SpecUnique get_unique_citations / extract_author_date_citations       *)
(* A specification leaves the variables of the other parts at their idle   *)
(* values.                                                                 *)
(***************************************************************************)
EXTENDS Integers, Sequences, FiniteSets, TLC

VARIABLES
    \* ---- one call of AuthorDateEngine.search
    q,          \* the arguments: author, year, second_author, third_author, context
    env,        \* what is configured: free engines, OPENAI_API_KEY, Claude client
    pc,         \* position of the call
    fut,        \* state of each Tier-1 future
    futRes,     \* list a finished future holds
    results,    \* the local list `results`, in the order it was extended
    gpt_results,\* the local list `gpt_results`
    calls,      \* log of the provider calls: the free queries, the AI tiers entered
    ret,        \* value returned (None, or the metadata of the best result)
    exc,        \* exception that left search, if any
    \* ---- _calculate_confidence on its own
    sc,
    \* ---- batch lookups
    bt,
    \* ---- get_unique_citations
    uq,
    \* ---- the verifier's matching rule
    mt,
    \* ---- lookup_fragment and guess_and_search
    lk,
    \* ---- extract_from_text
    ex

vars == <<q, env, pc, fut, futRes, results, gpt_results, calls, ret, exc, sc, bt, uq,
          mt, lk, ex>>

engineVars == <<q, env, pc, fut, futRes, results, gpt_results, calls, ret, exc>>

None == "None"

\* an optional author that is None or the empty string: `if second_author:` fails
NoName == <<>>

-----------------------------------------------------------------------------
(***************************************************************************)
(* Python floats.  Every confidence in the program is a binary64 sum of    *)
(* decimal fractions that are multiples of 0.05.  A value is kept as       *)
(*      n/100 + e * 2^-57 / 25                                             *)
(* n being the decimal value in hundredths and e the (integer) distance of *)
(* the binary64 from it, so that 0.3 + 0.15 + 0.05 is the float            *)
(* 0.49999999999999994 [n = 50, e = -200] and not 0.5.                     *)
(***************************************************************************)
Pow2(j) == CASE j = 0 -> 1 [] j = 1 -> 2 [] j = 2 -> 4
             [] j = 3 -> 8 [] j = 4 -> 16 [] j = 5 -> 32

\* 2^(55-j) modulo 50
Pow2Mod50(j) == CASE j = 0 -> 18 [] j = 1 -> 34 [] j = 2 -> 42
                  [] j = 3 -> 46 [] j = 4 -> 48 [] j = 5 -> 24

\* log2 of the spacing of the binary64 numbers around n/100, in units of 2^-57
Binade(n, e) ==
    IF n > 100 \/ (n = 100 /\ e >= 0) THEN 5
    ELSE IF n > 50 \/ (n = 50 /\ e >= 0) THEN 4
    ELSE IF n > 25 \/ (n = 25 /\ e >= 0) THEN 3
    ELSE IF n >= 13 THEN 2
    ELSE IF n >= 7 THEN 1
    ELSE 0

\* the binary64 nearest to n/100 + e units, ties to even, for a value >= 0
RoundPos(n, e) ==
    IF n < 4 THEN [n |-> n, e |-> e]
    ELSE LET j  == Binade(n, e)
             G  == 25 * Pow2(j)
             R  == (Pow2(j) * ((n * Pow2Mod50(j)) % 50) + e) % (2 * G)
             r  == R % G
             up == (2 * r > G) \/ (2 * r = G /\ R \div G = 1)
         IN  [n |-> n, e |-> IF up THEN e - r + G ELSE e - r]

Round(n, e) ==
    IF n < 0 \/ (n = 0 /\ e < 0)
    THEN LET p == RoundPos(-n, -e) IN [n |-> -(p.n), e |-> -(p.e)]
    ELSE RoundPos(n, e)

\* the float a decimal literal with n hundredths denotes
F(n) == Round(n, 0)

FAdd(a, b) == Round(a.n + b.n, a.e + b.e)
FSub(a, b) == Round(a.n - b.n, a.e - b.e)
\* int * float
FMulInt(k, a) == Round(k * a.n, k * a.e)

FLt(a, b) == a.n < b.n \/ (a.n = b.n /\ a.e < b.e)
FGeq(a, b) == ~FLt(a, b)
FMin(a, b) == IF FLt(b, a) THEN b ELSE a
FMax(a, b) == IF FLt(a, b) THEN b ELSE a

-----------------------------------------------------------------------------
(***************************************************************************)
(* Python strings, as sequences of one-character strings.                  *)
(***************************************************************************)
\* str.lower() on one character of the alphabet used here
LowerChar(c) == CASE c = "L" -> "l" [] c = "K" -> "k" [] c = "N" -> "n"
                  [] c = "W" -> "w" [] c = "A" -> "a" [] c = "I" -> "i"
                  [] c = "C" -> "c" [] c = "T" -> "t" [] c = "B" -> "b"
                  [] c = "E" -> "e" [] c = "S" -> "s" [] c = "Y" -> "y"
                  [] OTHER -> c

Lower(s) == [i \in 1..Len(s) |-> LowerChar(s[i])]

\* the operator `s in t` on strings
IsSubstr(s, t) ==
    \E i \in 0..(Len(t) - Len(s)) : SubSeq(t, i + 1, i + Len(s)) = s

IsSpace(c) == c = " "

RECURSIVE LStrip(_)
LStrip(s) == IF s # <<>> /\ IsSpace(Head(s)) THEN LStrip(Tail(s)) ELSE s

RECURSIVE RStrip(_)
RStrip(s) == IF s # <<>> /\ IsSpace(s[Len(s)])
             THEN RStrip(SubSeq(s, 1, Len(s) - 1)) ELSE s

\* str.strip()
Strip(s) == RStrip(LStrip(s))

-----------------------------------------------------------------------------
(***************************************************************************)
(* CitationMetadata, as far as the engine reads it.  An empty string is    *)
(* the falsy value of a field.  Years are strings; int(year) raises        *)
(* ValueError on the ones that are not numerals.                           *)
(***************************************************************************)
IsNumeral(y) == y \in {"1976", "1977", "1978", "1979"}

ToInt(y) == CASE y = "1976" -> 1976 [] y = "1977" -> 1977
              [] y = "1978" -> 1978 [] y = "1979" -> 1979

Abs(x) == IF x < 0 THEN -x ELSE x

\* any(needle in a for a in authors_lower)
AnyAuthorHas(needle, authors_lower) ==
    \E i \in 1..Len(authors_lower) : IsSubstr(needle, authors_lower[i])

\* lines 626-634: what the year adds
year_part(metadata, year) ==
    IF metadata.year = year THEN F(30)
    ELSE IF metadata.year # "" /\ IsNumeral(metadata.year) /\ IsNumeral(year)
            /\ Abs(ToInt(metadata.year) - ToInt(year)) <= 1
    THEN F(20)
    ELSE F(0)

authors_lower(metadata) == [i \in 1..Len(metadata.authors) |-> Lower(metadata.authors[i])]

\* lines 637-661: what an author of the citation adds when a candidate author has it
author_part(metadata, name, amount) ==
    IF metadata.authors # <<>> /\ name # NoName
       /\ AnyAuthorHas(Lower(name), authors_lower(metadata))
    THEN amount ELSE F(0)

\* lines 668-674
completeness(metadata) ==
      (IF metadata.title # "" THEN 1 ELSE 0)
    + (IF metadata.journal # "" \/ metadata.publisher # "" THEN 1 ELSE 0)
    + (IF metadata.volume # "" \/ metadata.pages # "" THEN 1 ELSE 0)

\* the sum _calculate_confidence accumulates in `confidence`, in the order of
\* its += (a part that does not apply adds 0.0, which changes nothing)
confidence_sum(metadata, author, year, second_author, third_author) ==
    FAdd(FAdd(FAdd(FAdd(FAdd(FAdd(F(0),
        year_part(metadata, year)),
        author_part(metadata, author, F(30))),
        author_part(metadata, second_author, F(15))),
        author_part(metadata, third_author, F(10))),
        IF metadata.doi # "" THEN F(15) ELSE F(0)),
        FMulInt(completeness(metadata), F(5)))

\* _calculate_confidence returning the sum as it is, without min(1.0, ...)
calculate_confidence_noclamp(metadata, author, year, second_author, third_author) ==
    confidence_sum(metadata, author, year, second_author, third_author)

\* AuthorDateEngine._calculate_confidence
calculate_confidence(metadata, author, year, second_author, third_author) ==
    FMin(F(100), confidence_sum(metadata, author, year, second_author, third_author))

SearchResult(metadata, confidence, match_reason) ==
    [metadata |-> metadata, confidence |-> confidence, match_reason |-> match_reason]

\* What an engine's search(query) does: it returns None, returns a record, or
\* raises.
NoRecord  == [kind |-> "none"]
Raises    == [kind |-> "raises"]
Record(m) == [kind |-> "record", md |-> m]

\* the list _search_crossref returns when cr.search(query) answers resp
search_crossref(resp, author, year, second_author, third_author) ==
    IF resp.kind # "record" THEN <<>>
    ELSE IF resp.md.title # "" /\ resp.md.year # "" /\ resp.md.year = year
    THEN LET confidence == calculate_confidence(resp.md, author, year, second_author, third_author)
         IN  << SearchResult(resp.md,
                             IF resp.md.doi # "" THEN FMin(F(100), FAdd(confidence, F(10)))
                                              ELSE confidence,
                             "Crossref author+year match") >>
    ELSE <<>>

\* the list _search_openalex returns when oa.search(query) answers resp
search_openalex(resp, author, year, second_author, third_author) ==
    IF resp.kind # "record" THEN <<>>
    ELSE IF resp.md.title # "" /\ resp.md.year # "" /\ resp.md.year = year
    THEN << SearchResult(resp.md,
                         calculate_confidence(resp.md, author, year, second_author, third_author),
                         "OpenAlex author+year match") >>
    ELSE <<>>

\* the list _search_google_scholar returns when gs.search(query) answers resp
search_google_scholar(resp, author, year, second_author, third_author) ==
    IF resp.kind # "record" THEN <<>>
    ELSE IF resp.md.title # ""
    THEN LET confidence == calculate_confidence(resp.md, author, year, second_author, third_author)
         IN  << SearchResult(resp.md,
                             IF resp.md.doi = "" THEN FMax(F(0), FSub(confidence, F(5)))
                                              ELSE confidence,
                             "Google Scholar author+year match") >>
    ELSE <<>>

Providers == {"crossref", "openalex", "google_scholar"}

search_provider(p, resp, author, year, second_author, third_author) ==
    CASE p = "crossref" -> search_crossref(resp, author, year, second_author, third_author)
      [] p = "openalex" -> search_openalex(resp, author, year, second_author, third_author)
      [] p = "google_scholar" ->
            search_google_scholar(resp, author, year, second_author, third_author)

-----------------------------------------------------------------------------
(***************************************************************************)
(* The lists of SearchResult and list.sort(reverse=True).  SearchResult    *)
(* orders by confidence alone (__lt__), and list.sort is stable, also with *)
(* reverse=True: results of equal confidence keep the order in which they  *)
(* were appended.                                                          *)
(***************************************************************************)
\* SearchResult.__lt__
SearchResult_lt(a, b) == FLt(a.confidence, b.confidence)

RECURSIVE InsertDesc(_, _)
InsertDesc(sorted, x) ==
    IF sorted = <<>> THEN <<x>>
    ELSE IF SearchResult_lt(Head(sorted), x) THEN <<x>> \o sorted
    ELSE <<Head(sorted)>> \o InsertDesc(Tail(sorted), x)

RECURSIVE SortDescFrom(_, _)
SortDescFrom(sorted, rest) ==
    IF rest = <<>> THEN sorted
    ELSE SortDescFrom(InsertDesc(sorted, Head(rest)), Tail(rest))

\* list.sort(reverse=True)
sort_reverse(list) == SortDescFrom(<<>>, list)

-----------------------------------------------------------------------------
(***************************************************************************)
(* The AI tiers of the engine.                                             *)
(***************************************************************************)
\* f"{authors_str} ({year})": the authors put into the reference, in order
citation_ref(author, year, second_author, third_author) ==
    [authors |-> <<author>>
                 \o (IF second_author # NoName THEN <<second_author>> ELSE <<>>)
                 \o (IF third_author # NoName THEN <<third_author>> ELSE <<>>),
     year |-> year]

\* CitationMetadata(...) built from an AI guess
metadata_from_guess(guess, year, engine) ==
    [title |-> guess.title, authors |-> guess.authors,
     year |-> IF guess.year = "absent" THEN year ELSE guess.year,
     journal |-> guess.journal, volume |-> guess.volume, pages |-> guess.pages,
     publisher |-> guess.publisher,
     doi |-> guess.doi, source_engine |-> engine]

\* the part of _search_gpt4o and _search_claude after the guess is parsed
results_from_guess(guess, author, year, engine, reason) ==
    IF FLt(guess.confidence, F(50)) THEN <<>>
    ELSE LET metadata == metadata_from_guess(guess, year, engine)
             authors_match ==
                 metadata.authors # <<>>
                 /\ \E i \in 1..Len(metadata.authors) :
                        IsSubstr(Lower(author), Lower(metadata.authors[i]))
         IN  IF metadata.title # "" /\ authors_match
             THEN << SearchResult(metadata,
                                  FMin(F(95), FAdd(guess.confidence, F(10))),
                                  reason) >>
             ELSE <<>>

Returned(list) == [kind |-> "return", list |-> list]
Raised(e)      == [kind |-> "raise", exc |-> e]

\* _search_gpt4o.  http is what the request does.  The name json is local to
\* the function (import json, line 540) and bound only once that line has
\* run: an exception raised before it reaches `except json.JSONDecodeError`
\* with json unbound, and UnboundLocalError leaves the function.
search_gpt4o(http, api_key, author, year, second_author, third_author, context) ==
    IF ~api_key THEN Returned(<<>>)
    ELSE CASE http.kind = "import_error" -> Returned(<<>>)
           [] http.kind = "post_raises"  -> Raised("UnboundLocalError")
           [] http.kind = "status_error" -> Returned(<<>>)
           [] http.kind = "body_not_json" -> Raised("UnboundLocalError")
           [] http.kind = "content_not_json" -> Returned(<<>>)
           [] http.kind = "guess" ->
                Returned(results_from_guess(http.guess, author, year,
                                            "GPT-4o", "GPT-4o contextual match"))

\* the prompt _search_gpt4o sends: the reference and the context hint
gpt4o_prompt(author, year, second_author, third_author, context) ==
    [to |-> "gpt4o",
     ref |-> citation_ref(author, year, second_author, third_author),
     hint |-> context]

\* _search_claude.  guess_citation answers with a guess; without a client, on
\* an error or on unreadable text its guess has confidence 0.0.
search_claude(reply, author, year, second_author, third_author, context) ==
    CASE reply.kind = "import_error" -> <<>>
      [] reply.kind = "no_guess" -> <<>>
      [] reply.kind = "guess" ->
            results_from_guess(reply.guess, author, year,
                               "Claude AI", "Claude AI contextual match")

\* the query _search_claude hands to guess_citation
claude_query(author, year, second_author, third_author, context) ==
    [to |-> "claude",
     ref |-> citation_ref(author, year, second_author, third_author),
     hint |-> context]

-----------------------------------------------------------------------------
(***************************************************************************)
(* The inputs the model draws from.                                        *)
(***************************************************************************)
Li  == <<"L", "i">>
Ko  == <<"K", "o">>
Ng  == <<"N", "g">>
Psy == <<"p", "s", "y">>

LiW  == <<"L", "i", ",", " ", "W">>
LinA == <<"L", "i", "n", ",", " ", "A">>
KoI  == <<"K", "o", ",", " ", "I">>
NgA  == <<"N", "g", ",", " ", "A">>

Md(title, authors, year, doi, journal, volume) ==
    [title |-> title, authors |-> authors, year |-> year, journal |-> journal,
     volume |-> volume, pages |-> "", publisher |-> "", doi |-> doi,
     source_engine |-> ""]

\* records the free engines may answer with
WithDoi == { Md("T1", <<LiW>>, "1977", "10.1", "", ""),
             Md("T6", <<NgA>>, "1977", "10.6", "J", "1") }

DoiLess == { Md("T2", <<LiW, KoI>>, "1977", "", "J", ""),
             Md("T9", <<LiW>>, "1977", "", "J", ""),
             Md("T3", <<KoI>>, "1977", "", "", ""),
             Md("", <<LiW>>, "1977", "", "J", ""),
             Md("T5", <<LinA>>, "1978", "", "J", "") }

Stamp(m, engine) == [m EXCEPT !.source_engine = engine]

\* GoogleScholarEngine._normalize always leaves doi empty
Catalog(p) == IF p = "google_scholar" THEN DoiLess ELSE WithDoi \cup DoiLess

\* what engine p's search(query) can do
Responses(p) == {NoRecord, Raises} \cup { Record(Stamp(m, p)) : m \in Catalog(p) }

Guess(confidence, title, authors, year, doi) ==
    [confidence |-> confidence, title |-> title, authors |-> authors, year |-> year,
     journal |-> "", volume |-> "", pages |-> "", publisher |-> "", doi |-> doi]

\* guesses an AI provider may make
Guesses == { Guess(F(95), "T1", <<LiW>>, "1977", "10.1"),
             Guess(F(60), "T8", <<LinA>>, "absent", ""),
             Guess(F(30), "T2", <<LiW>>, "1977", ""),
             Guess(F(90), "T3", <<KoI>>, "1977", ""),
             Guess(F(70), "", <<LiW>>, "1977", "") }

GptHttp == { [kind |-> k] : k \in {"import_error", "post_raises", "status_error",
                                   "body_not_json", "content_not_json"} }
           \cup { [kind |-> "guess", guess |-> g] : g \in Guesses }

ClaudeReplies == { [kind |-> "import_error"], [kind |-> "no_guess"] }
                 \cup { [kind |-> "guess", guess |-> g] : g \in Guesses }

Queries == [author : {Li}, year : {"1977", "n.d."}, second_author : {NoName, Ko},
            third_author : {NoName, Ng}, context : {NoName, Psy}]

Envs == [engines : SUBSET Providers, api_key : BOOLEAN, client : BOOLEAN]

-----------------------------------------------------------------------------
(***************************************************************************)
(* AuthorDateEngine.search                                                 *)
(***************************************************************************)
Pending   == [kind |-> "pending"]
RetNone   == [kind |-> "None"]
RetMd(m)  == [kind |-> "metadata", md |-> m]

\* best.metadata.raw_source = f"({author}, {year})"; return best.metadata
ReturnBest(best) == RetMd(best.metadata @@ [raw_source |-> <<q.author, q.year>>])

\* a free provider's query that carries the document context as well
free_query_context(p, author, year, second_author, third_author) ==
    [to |-> p, ref |-> citation_ref(author, year, second_author, third_author),
     hint |-> q.context]

\* the query each free provider's search is called with
free_query(p, author, year, second_author, third_author) ==
    [to |-> p, ref |-> citation_ref(author, year, second_author, third_author),
     hint |-> NoName]

\* the order in which search submits the providers
SubmitOrder == <<"crossref", "openalex", "google_scholar">>

RECURSIVE Dispatches(_, _)
Dispatches(order, engines) ==
    IF order = <<>> THEN <<>>
    ELSE (IF Head(order) \in engines
          THEN << free_query(Head(order), q.author, q.year, q.second_author, q.third_author) >>
          ELSE <<>>) \o Dispatches(Tail(order), engines)

IdleSc == [stage |-> "idle"]
IdleBt == [stage |-> "idle"]
IdleUq == [stage |-> "idle"]
IdleMt == [stage |-> "idle"]
IdleLk == [stage |-> "idle"]
IdleEx == [stage |-> "idle"]

Init ==
    /\ q \in Queries
    /\ env \in Envs
    /\ pc = "start"
    /\ fut = [p \in Providers |-> "absent"]
    /\ futRes = [p \in Providers |-> <<>>]
    /\ results = <<>>
    /\ gpt_results = <<>>
    /\ calls = <<>>
    /\ ret = Pending
    /\ exc = None
    /\ sc = IdleSc /\ bt = IdleBt /\ uq = IdleUq
    /\ mt = IdleMt /\ lk = IdleLk /\ ex = IdleEx

\* lines 121-160: the n.d. shortcut, else submit every configured engine
Start ==
    /\ pc = "start"
    /\ IF q.year = "n.d."
       THEN /\ ret' = RetNone
            /\ pc' = "returned"
            /\ UNCHANGED <<fut, calls>>
       ELSE /\ fut' = [p \in Providers |-> IF p \in env.engines THEN "running" ELSE "absent"]
            /\ calls' = Dispatches(SubmitOrder, env.engines)
            /\ pc' = "collect"
            /\ ret' = ret
    /\ UNCHANGED <<q, env, futRes, results, gpt_results, exc, sc, bt, uq, mt, lk, ex>>

\* a worker thread finishes _search_<p>: the engine answered resp
ProviderFinish(p, resp) ==
    /\ pc \in {"collect", "shutdown"}
    /\ fut[p] = "running"
    /\ fut' = [fut EXCEPT ![p] = "done"]
    /\ futRes' = [futRes EXCEPT ![p] =
                     search_provider(p, resp, q.author, q.year, q.second_author, q.third_author)]
    /\ UNCHANGED <<q, env, pc, results, gpt_results, calls, ret, exc, sc, bt, uq, mt, lk, ex>>

\* lines 163-167: as_completed yields a finished future, its list is appended
Collect(p) ==
    /\ pc = "collect"
    /\ fut[p] = "done"
    /\ results' = results \o futRes[p]
    /\ fut' = [fut EXCEPT ![p] = "collected"]
    /\ UNCHANGED <<q, env, pc, futRes, gpt_results, calls, ret, exc, sc, bt, uq, mt, lk, ex>>

\* line 163: the timeout of as_completed elapses while a future is unfinished
\* (the finished ones have been yielded): its iterator raises TimeoutError,
\* outside the try of the loop body; the with-block then waits for the
\* workers (shutdown(wait=True))
Deadline ==
    /\ pc = "collect"
    /\ \E p \in Providers : fut[p] = "running"
    /\ \A p \in Providers : fut[p] # "done"
    /\ pc' = "shutdown"
    /\ exc' = "TimeoutError"
    /\ UNCHANGED <<q, env, fut, futRes, results, gpt_results, calls, ret, sc, bt, uq, mt, lk, ex>>

\* the workers have finished: the exception leaves search
ShutdownDone ==
    /\ pc = "shutdown"
    /\ \A p \in Providers : fut[p] # "running"
    /\ pc' = "raised"
    /\ UNCHANGED <<q, env, fut, futRes, results, gpt_results, calls, ret, exc, sc, bt, uq, mt, lk, ex>>

AllCollected == \A p \in Providers : fut[p] \in {"absent", "collected"}

\* lines 172-185: sort what was collected; a best result of at least 0.5 is returned
Tier1Check ==
    /\ pc = "collect"
    /\ AllCollected
    /\ LET sorted == sort_reverse(results)
       IN  IF results # <<>> /\ FGeq(sorted[1].confidence, F(50))
           THEN /\ ret' = ReturnBest(sorted[1])
                /\ pc' = "returned"
                /\ results' = sorted
           ELSE /\ pc' = "gpt"
                /\ results' = sorted
                /\ ret' = ret
    /\ UNCHANGED <<q, env, fut, futRes, gpt_results, calls, exc, sc, bt, uq, mt, lk, ex>>

\* lines 187-198: Tier 2.  The call passes context in the position of
\* third_author: _search_gpt4o(author, year, second_author, context)
Tier2(http) ==
    /\ pc = "gpt"
    /\ LET out == search_gpt4o(http, env.api_key, q.author, q.year,
                               q.second_author, q.context, NoName)
       IN  /\ calls' = Append(calls, gpt4o_prompt(q.author, q.year, q.second_author,
                                                  q.context, NoName)
                                     @@ [sent |-> env.api_key /\ http.kind # "import_error",
                                         reply |-> http])
           /\ IF out.kind = "raise"
              THEN /\ pc' = "raised"
                   /\ exc' = out.exc
                   /\ UNCHANGED <<results, gpt_results>>
              ELSE LET sorted == sort_reverse(out.list)
                       good == sorted # <<>> /\ FGeq(sorted[1].confidence, F(50))
                   IN  /\ gpt_results' = sorted
                       /\ results' = IF good THEN results \o sorted ELSE results
                       /\ pc' = IF sorted = <<>> \/ ~good THEN "claude" ELSE "final"
                       /\ exc' = exc
    /\ UNCHANGED <<q, env, fut, futRes, ret, sc, bt, uq, mt, lk, ex>>

\* lines 200-205: Tier 3, with the same shifted arguments
Tier3(reply) ==
    /\ pc = "claude"
    /\ (reply.kind = "guess" => env.client)
    /\ LET claude_results == search_claude(reply, q.author, q.year,
                                           q.second_author, q.context, NoName)
       IN  /\ results' = results \o claude_results
           /\ calls' = Append(calls, claude_query(q.author, q.year, q.second_author,
                                                  q.context, NoName)
                                     @@ [sent |-> env.client /\ reply.kind # "import_error",
                                         reply |-> reply])
    /\ pc' = "final"
    /\ UNCHANGED <<q, env, fut, futRes, gpt_results, ret, exc, sc, bt, uq, mt, lk, ex>>

\* lines 207-221: nothing at all gives None, else the best of `results`
Final ==
    /\ pc = "final"
    /\ IF results = <<>>
       THEN /\ ret' = RetNone
            /\ results' = results
       ELSE /\ results' = sort_reverse(results)
            /\ ret' = ReturnBest(sort_reverse(results)[1])
    /\ pc' = "returned"
    /\ UNCHANGED <<q, env, fut, futRes, gpt_results, calls, exc, sc, bt, uq, mt, lk, ex>>

Next ==
    \/ Start
    \/ \E p \in Providers : \E resp \in Responses(p) : ProviderFinish(p, resp)
    \/ \E p \in Providers : Collect(p)
    \/ Deadline
    \/ ShutdownDone
    \/ Tier1Check
    \/ \E http \in GptHttp : Tier2(http)
    \/ \E reply \in ClaudeReplies : Tier3(reply)
    \/ Final

Spec == Init /\ [][Next]_vars

-----------------------------------------------------------------------------
(***************************************************************************)
(* Claims about one call of search (specification Spec).                   *)
(***************************************************************************)
Terminated == pc \in {"returned", "raised"}

AITiers == {"gpt4o", "claude"}

TierEntered(t) == \E i \in 1..Len(calls) : calls[i].to = t

\* the Tier-1 results the call has collected
IsFree(r) == r.metadata.source_engine \in Providers
Tier1Collected == SelectSeq(results, IsFree)

\* some collected Tier-1 candidate scores 0.5 or more
Tier1Promotable ==
    \E i \in 1..Len(Tier1Collected) : FGeq(Tier1Collected[i].confidence, F(50))

\* ret is the metadata of SearchResult r
ReturnedIs(r) == ret = ReturnBest(r)

\* C1: an AI tier is entered if and only if Tier 1 produced no candidate
\* scoring at least 0.5; a Tier-1 best of at least 0.5 is returned without any
\* AI tier; and Tier 3 (Claude) is entered if and only if Tier 2 (GPT-4o)
\* produced no candidate.  Stated for a call with a searchable year, at its end.
C1_TierEscalation ==
    (Terminated /\ q.year # "n.d.") =>
        /\ (TierEntered("gpt4o") \/ TierEntered("claude")) <=> ~Tier1Promotable
        /\ Tier1Promotable =>
              /\ ret.kind = "metadata"
              /\ \E i \in 1..Len(Tier1Collected) : ReturnedIs(Tier1Collected[i])
        /\ TierEntered("gpt4o") => (TierEntered("claude") <=> gpt_results = <<>>)

\* the AI call whose guess became the returned record
GuessBehind(i) ==
    /\ calls[i].to \in AITiers
    /\ calls[i].reply.kind = "guess"
    /\ ret.kind = "metadata"
    /\ ret.md.title = calls[i].reply.guess.title
    /\ ret.md.authors = calls[i].reply.guess.authors

\* a free-provider lookup made after AI call i, to corroborate its guess
VerifiedAfter(i) ==
    \E j \in (i + 1)..Len(calls) : calls[j].to \in Providers

ReturnedFromAI ==
    pc = "returned" /\ ret.kind = "metadata" /\ ret.md.source_engine \in {"GPT-4o", "Claude AI"}

\* C2: a record that comes from an AI guess is returned only if the guess was
\* corroborated by a free-provider record retrieved for it, or its
\* self-reported confidence is at least 0.9.
C2_NoUnverifiedGuess ==
    ReturnedFromAI =>
        \A i \in 1..Len(calls) :
            (calls[i].to \in AITiers /\ GuessBehind(i)) =>
                \/ VerifiedAfter(i)
                \/ FGeq(calls[i].reply.guess.confidence, F(90))

\* C3: a provider that has not answered when the deadline elapses counts as no
\* answer from that provider only: a candidate of at least 0.5 that another
\* provider delivered before the deadline is still returned.
C3_PartialFanOut ==
    (Terminated /\ Tier1Promotable) =>
        /\ ret.kind = "metadata"
        /\ \E i \in 1..Len(Tier1Collected) : ReturnedIs(Tier1Collected[i])

\* C4: search ends with a normal return: when the deadline elapses and no
\* provider has responded it returns None; it does not raise.
C4_DeadlineReturnsNone ==
    (pc = "raised" /\ Tier1Collected = <<>>) => exc # "TimeoutError"

\* what the futures hold, in the order the providers were submitted
InSubmitOrder == futRes["crossref"] \o futRes["openalex"] \o futRes["google_scholar"]

\* C5: for a fixed set of Tier-1 responses the record returned is the same
\* whatever the order of completion: it is the work returned when the
\* providers complete in the order they were submitted.
C5_OrderIndependent ==
    (pc = "returned" /\ Tier1Promotable) =>
        ret.md.title = sort_reverse(InSubmitOrder)[1].metadata.title

\* the record of the (Bandura, 1977) scenario: title, the cited author, the
\* cited year, a DOI, neither container nor locator
IsScenarioRecord(m) ==
    /\ m.source_engine = "crossref"
    /\ m.title # "" /\ m.doi # "" /\ m.year = q.year
    /\ AnyAuthorHas(Lower(q.author), authors_lower(m))
    /\ m.journal = "" /\ m.publisher = "" /\ m.volume = "" /\ m.pages = ""

\* Crossref delivered the scenario's record and it was collected; no other
\* provider gave a record
OnlyCrossrefResponse ==
    /\ Len(futRes["crossref"]) = 1
    /\ Tier1Collected = futRes["crossref"]
    /\ IsScenarioRecord(futRes["crossref"][1].metadata)
    /\ futRes["openalex"] = <<>>
    /\ futRes["google_scholar"] = <<>>

\* C9: a citation whose only Tier-1 response is such a Crossref record is
\* resolved to it with confidence at least 0.85 and without any AI tier.
C9_CrossrefScenario ==
    (Terminated /\ OnlyCrossrefResponse) =>
        /\ ReturnedIs(futRes["crossref"][1])
        /\ FGeq(futRes["crossref"][1].confidence, F(85))
        /\ ~TierEntered("gpt4o") /\ ~TierEntered("claude")

\* the candidate a free provider makes of record m for the citation's
\* authors and year
ScoredFromCitation(r) ==
    <<r>> = search_provider(r.metadata.source_engine, Record(r.metadata),
                            q.author, q.year, q.second_author, q.third_author)

\* C17: what search sends to the free providers is made of the authors and
\* the year alone, never of the context; and when Tier 1 reaches 0.5 the
\* record returned is the best of the candidates collected, each scored from
\* the authors and the year, with no AI tier (the only readers of context).
C17_ContextFree ==
    /\ \A i \in 1..Len(calls) :
          calls[i].to \in Providers =>
              /\ calls[i].ref = citation_ref(q.author, q.year, q.second_author,
                                             q.third_author)
              /\ calls[i].hint = NoName
    /\ (pc = "returned" /\ Tier1Promotable) =>
          /\ \A i \in 1..Len(results) : ScoredFromCitation(results[i])
          /\ ReturnedIs(results[1])
          /\ ~TierEntered("gpt4o") /\ ~TierEntered("claude")

\* a call that was given a context and returned a Tier-1 record
C17_Witness ==
    /\ pc = "returned"
    /\ q.context = Psy
    /\ Tier1Promotable
    /\ \E i \in 1..Len(calls) : calls[i].to \in Providers

\* C19: a free-provider candidate is returned only if its score is at least
\* 0.5; a free tier below 0.5 with no AI candidate gives None.
C19_ThresholdOnReturn ==
    (pc = "returned" /\ ret.kind = "metadata" /\ ret.md.source_engine \in Providers) =>
        \A i \in 1..Len(results) :
            ReturnedIs(results[i]) => FGeq(results[i].confidence, F(50))

-----------------------------------------------------------------------------
(***************************************************************************)
(* Specification SpecScore: the confidence attached to a Tier-1 candidate, *)
(* for every combination of the signals _calculate_confidence reads.       *)
(***************************************************************************)
MaxAuthors == 2

AuthorNames == {LiW, KoI, NgA}

\* author lists without repetition, up to MaxAuthors long
AuthorLists ==
    UNION { { a \in [1..n -> AuthorNames] : \A i, j \in 1..n : i # j => a[i] # a[j] }
            : n \in 0..MaxAuthors }

ScoreRecords ==
    [title : {"", "T"}, authors : AuthorLists,
     year : {"", "1977", "1978", "1979", "1977a"},
     journal : {"", "J"}, volume : {"", "1"}, pages : {"", "1-2"},
     publisher : {"", "P"}, doi : {"", "10.1"}, source_engine : {""}]

ScoreQueries == [author : {Li}, year : {"1977", "1977a"}, second_author : {NoName, Ko},
                 third_author : {NoName, Ng}]

InitScore ==
    /\ sc \in [stage : {"input"}, md : ScoreRecords, query : ScoreQueries]
    /\ q = [author |-> Li, year |-> "1977", second_author |-> NoName,
            third_author |-> NoName, context |-> NoName]
    /\ env = [engines |-> {}, api_key |-> FALSE, client |-> FALSE]
    /\ pc = "idle"
    /\ fut = [p \in Providers |-> "absent"]
    /\ futRes = [p \in Providers |-> <<>>]
    /\ results = <<>> /\ gpt_results = <<>> /\ calls = <<>>
    /\ ret = Pending /\ exc = None
    /\ bt = IdleBt /\ uq = IdleUq
    /\ mt = IdleMt /\ lk = IdleLk /\ ex = IdleEx

\* provider p's engine answers sc.md and _search_<p> builds its result list
Scored(p) ==
    /\ sc.stage = "input"
    /\ (p = "google_scholar" => sc.md.doi = "")
    /\ sc' = [stage |-> "scored", md |-> sc.md, query |-> sc.query, provider |-> p,
              out |-> search_provider(p, Record(Stamp(sc.md, p)), sc.query.author,
                                      sc.query.year, sc.query.second_author,
                                      sc.query.third_author)]
    /\ UNCHANGED <<engineVars, bt, uq, mt, lk, ex>>

ScoreCrossref == Scored("crossref")
ScoreOpenAlex == Scored("openalex")
ScoreGoogleScholar == Scored("google_scholar")

NextScore == ScoreCrossref \/ ScoreOpenAlex \/ ScoreGoogleScholar

SpecScore == InitScore /\ [][NextScore]_vars

\* C8: every confidence attached to a Tier-1 candidate lies in [0, 1].
C8_ConfidenceBounded ==
    sc.stage = "scored" =>
        \A i \in 1..Len(sc.out) :
            /\ FGeq(sc.out[i].confidence, F(0))
            /\ FGeq(F(100), sc.out[i].confidence)

\* a candidate whose signals add up to more than 1 got a confidence
C8_Witness ==
    /\ sc.stage = "scored"
    /\ sc.out # <<>>
    /\ FLt(F(100), confidence_sum(sc.md, sc.query.author, sc.query.year,
                                  sc.query.second_author, sc.query.third_author))

-----------------------------------------------------------------------------
(***************************************************************************)
(* AuthorYearCitation and get_unique_citations.                            *)
(***************************************************************************)
Y77  == <<"1", "9", "7", "7">>
Y78  == <<"1", "9", "7", "8">>
Y77s == <<"1", "9", "7", "7", " ">>

li  == <<"l", "i">>
Lis == <<"L", "i", " ">>

\* AuthorYearCitation.search_key comparing authors with their case kept
search_key_cased(citation) == << Strip(citation.author), Strip(citation.year) >>

\* AuthorYearCitation.search_key
search_key(citation) == << Strip(Lower(citation.author)), Strip(citation.year) >>

RECURSIVE UniqueFrom(_, _, _)
UniqueFrom(source, seen, unique) ==
    IF source = <<>> THEN unique
    ELSE IF search_key(Head(source)) \notin seen
    THEN UniqueFrom(Tail(source), seen \cup {search_key(Head(source))},
                    Append(unique, Head(source)))
    ELSE UniqueFrom(Tail(source), seen, unique)

\* AuthorDateExtractor.get_unique_citations
get_unique_citations(citations) == UniqueFrom(citations, {}, <<>>)

MaxCites == 3

CiteAuthors == {Li, li, Lis, Ko}
CiteYears   == {Y77, Y78, Y77s}

\* the lists extract_from_text may hand over: any raw matches, raw_text
\* telling the occurrences apart
CitationLists(maxlen) ==
    UNION { { [i \in 1..n |-> [author |-> a[i], year |-> y[i], second_author |-> NoName,
                               third_author |-> NoName, raw_text |-> i]]
              : a \in [1..n -> CiteAuthors], y \in [1..n -> CiteYears] }
            : n \in 0..maxlen }

InitUnique ==
    /\ uq \in [stage : {"extracted"}, citations : CitationLists(MaxCites)]
    /\ q = [author |-> Li, year |-> "1977", second_author |-> NoName,
            third_author |-> NoName, context |-> NoName]
    /\ env = [engines |-> {}, api_key |-> FALSE, client |-> FALSE]
    /\ pc = "idle"
    /\ fut = [p \in Providers |-> "absent"]
    /\ futRes = [p \in Providers |-> <<>>]
    /\ results = <<>> /\ gpt_results = <<>> /\ calls = <<>>
    /\ ret = Pending /\ exc = None
    /\ sc = IdleSc /\ bt = IdleBt
    /\ mt = IdleMt /\ lk = IdleLk /\ ex = IdleEx

\* extract_author_date_citations, lines 825-826: the extractor's citations
\* go through get_unique_citations
GetUnique ==
    /\ uq.stage = "extracted"
    /\ uq' = [stage |-> "unique", citations |-> uq.citations,
              unique |-> get_unique_citations(uq.citations)]
    /\ UNCHANGED <<engineVars, sc, bt, mt, lk, ex>>

NextUnique == GetUnique

SpecUnique == InitUnique /\ [][NextUnique]_vars

\* the identity key of a citation: lower-cased, trimmed author; year
IdentityKey(citation) == << Strip(Lower(citation.author)), citation.year >>

\* C10: the sequence get_unique_citations returns never holds two citations
\* with the same identity key.
C10_UniqueKeys ==
    uq.stage = "unique" =>
        \A i, j \in 1..Len(uq.unique) :
            i # j => IdentityKey(uq.unique[i]) # IdentityKey(uq.unique[j])

\* two matches whose authors differ in case only were collapsed, others kept
C10_Witness ==
    /\ uq.stage = "unique"
    /\ Len(uq.unique) = 2
    /\ \E i, j \in 1..Len(uq.citations) :
          /\ i < j
          /\ uq.citations[i].author # uq.citations[j].author
          /\ IdentityKey(uq.citations[i]) = IdentityKey(uq.citations[j])

-----------------------------------------------------------------------------
(***************************************************************************)
(* Batch operation: AuthorDateEngine.search_multiple and the parallel      *)
(* lookup of AuthorDateProcessor.process_document.                         *)
(***************************************************************************)
MaxBatch == 3

\* ThreadPoolExecutor(max_workers=4) of process_document
max_workers == 4

BatchAuthors == {Li, li, Ko}
BatchYears   == {Y77, Y78}

BatchLists(maxlen) ==
    UNION { { [i \in 1..n |-> [author |-> a[i], year |-> y[i], second_author |-> NoName,
                               third_author |-> NoName, raw_text |-> i]]
              : a \in [1..n -> BatchAuthors], y \in [1..n -> BatchYears] }
            : n \in 0..maxlen }

\* what one call of AuthorDateEngine.search can do: return a record, return
\* None, or raise (the as_completed deadline, the GPT-4o handler)
SearchOutcomes == {"metadata", "None", "TimeoutError", "UnboundLocalError"}

Found(citation) == [kind |-> "metadata", author |-> citation.author, year |-> citation.year]
NotFound        == [kind |-> "None"]

\* the try/except around self.search in search_multiple and the one in
\* lookup_single: a raised search is recorded as None
guarded_search(citation, outcome) ==
    IF outcome = "metadata" THEN Found(citation) ELSE NotFound

\* results[key] = metadata on a dict
DictSet(d, key, value) ==
    [k \in DOMAIN d \cup {key} |-> IF k = key THEN value ELSE d[k]]

EmptyDict == [k \in {} |-> NotFound]

\* key = (author.lower(), year) of search_multiple
multiple_key(citation) == << Lower(citation.author), citation.year >>

CodePoints ==
    <<" ", "0", "1", "2", "3", "4", "5", "6", "7", "8", "9",
      "A", "I", "K", "L", "N", "W", "a", "i", "k", "l", "n", "o", "w">>

ord(c) == CHOOSE i \in 1..Len(CodePoints) : CodePoints[i] = c

\* str.__lt__
RECURSIVE StrLt(_, _)
StrLt(s, t) ==
    IF t = <<>> THEN FALSE
    ELSE IF s = <<>> THEN TRUE
    ELSE IF Head(s) = Head(t) THEN StrLt(Tail(s), Tail(t))
    ELSE ord(Head(s)) < ord(Head(t))

\* the sort key of a ReferenceEntry, lines 350-354
reference_key(r) ==
    << Lower(r.citation.author), r.citation.year,
       IF r.citation.second_author # NoName THEN Lower(r.citation.second_author) ELSE <<>> >>

\* tuple comparison of two sort keys
KeyLt(a, b) ==
    \/ StrLt(a[1], b[1])
    \/ a[1] = b[1] /\ StrLt(a[2], b[2])
    \/ a[1] = b[1] /\ a[2] = b[2] /\ StrLt(a[3], b[3])

RECURSIVE InsertAsc(_, _)
InsertAsc(sorted, r) ==
    IF sorted = <<>> THEN <<r>>
    ELSE IF KeyLt(reference_key(r), reference_key(Head(sorted)))
    THEN <<r>> \o sorted
    ELSE <<Head(sorted)>> \o InsertAsc(Tail(sorted), r)

RECURSIVE SortAscFrom(_, _)
SortAscFrom(sorted, rest) ==
    IF rest = <<>> THEN sorted
    ELSE SortAscFrom(InsertAsc(sorted, Head(rest)), Tail(rest))

\* references.sort(key=...): stable, ascending
sort_references(references) == SortAscFrom(<<>>, references)

\* lines 321-345: one ReferenceEntry per unique citation, in original order
ReferenceEntry(citation, lookup_results) ==
    IF search_key(citation) \in DOMAIN lookup_results
       /\ lookup_results[search_key(citation)].kind = "metadata"
    THEN [citation |-> citation, metadata |-> lookup_results[search_key(citation)],
          found |-> TRUE]
    ELSE [citation |-> citation, metadata |-> NotFound, found |-> FALSE]

build_references(unique, lookup_results) ==
    [i \in 1..Len(unique) |-> ReferenceEntry(unique[i], lookup_results)]

InitBatch ==
    /\ bt \in [stage : {"called"}, mode : {"search_multiple", "process_document"},
               input : BatchLists(MaxBatch), i : {1}, results : {EmptyDict},
               searches : {<<>>}, unique : {<<>>}, futs : {<<>>},
               lookup_results : {EmptyDict}, references : {<<>>}, exc : {None}]
    /\ q = [author |-> Li, year |-> "1977", second_author |-> NoName,
            third_author |-> NoName, context |-> NoName]
    /\ env = [engines |-> {}, api_key |-> FALSE, client |-> FALSE]
    /\ pc = "idle"
    /\ fut = [p \in Providers |-> "absent"]
    /\ futRes = [p \in Providers |-> <<>>]
    /\ results = <<>> /\ gpt_results = <<>> /\ calls = <<>>
    /\ ret = Pending /\ exc = None
    /\ sc = IdleSc /\ uq = IdleUq
    /\ mt = IdleMt /\ lk = IdleLk /\ ex = IdleEx

\* one iteration of the loop of search_multiple, lines 698-720
SearchMultipleStep(outcome) ==
    /\ bt.mode = "search_multiple"
    /\ bt.stage = "called"
    /\ bt.i <= Len(bt.input)
    /\ bt' = [bt EXCEPT
                !.searches = Append(@, IdentityKey(bt.input[bt.i])),
                !.results = DictSet(@, multiple_key(bt.input[bt.i]),
                                    guarded_search(bt.input[bt.i], outcome)),
                !.i = @ + 1]
    /\ UNCHANGED <<engineVars, sc, uq, mt, lk, ex>>

\* return results, line 722
SearchMultipleReturn ==
    /\ bt.mode = "search_multiple"
    /\ bt.stage = "called"
    /\ bt.i > Len(bt.input)
    /\ bt' = [bt EXCEPT !.stage = "returned"]
    /\ UNCHANGED <<engineVars, sc, uq, mt, lk, ex>>

\* process_document lines 247-300: unique citations, early return when there
\* are none, otherwise one future per unique citation
SubmitLookups ==
    /\ bt.mode = "process_document"
    /\ bt.stage = "called"
    /\ bt' = IF get_unique_citations(bt.input) = <<>>
             THEN [bt EXCEPT !.stage = "returned"]
             ELSE [bt EXCEPT !.stage = "collect",
                             !.unique = get_unique_citations(bt.input),
                             !.futs = [i \in 1..Len(get_unique_citations(bt.input))
                                         |-> [state |-> "queued", value |-> NotFound]]]
    /\ UNCHANGED <<engineVars, sc, uq, mt, lk, ex>>

Running == { i \in 1..Len(bt.futs) : bt.futs[i].state = "running" }
Queued  == { i \in 1..Len(bt.futs) : bt.futs[i].state = "queued" }
Done    == { i \in 1..Len(bt.futs) : bt.futs[i].state = "done" }

\* a pool thread takes the oldest queued lookup and calls engine.search
LookupStart(i) ==
    /\ bt.stage \in {"collect", "shutdown"}
    /\ i \in Queued
    /\ \A j \in Queued : i <= j
    /\ Cardinality(Running) < max_workers
    /\ bt' = [bt EXCEPT !.futs[i].state = "running",
                        !.searches = Append(@, IdentityKey(bt.unique[i]))]
    /\ UNCHANGED <<engineVars, sc, uq, mt, lk, ex>>

\* lookup_single returns, lines 278-291
LookupFinish(i, outcome) ==
    /\ bt.stage \in {"collect", "shutdown"}
    /\ i \in Running
    /\ bt' = [bt EXCEPT !.futs[i] = [state |-> "done",
                                     value |-> guarded_search(bt.unique[i], outcome)]]
    /\ UNCHANGED <<engineVars, sc, uq, mt, lk, ex>>

\* the body of the as_completed loop, lines 303-319
LookupCollect(i) ==
    /\ bt.stage = "collect"
    /\ i \in Done
    /\ bt' = [bt EXCEPT !.futs[i].state = "collected",
                        !.lookup_results = DictSet(@, search_key(bt.unique[i]),
                                                   bt.futs[i].value)]
    /\ UNCHANGED <<engineVars, sc, uq, mt, lk, ex>>

\* as_completed(futures, timeout=90) runs out with lookups unfinished: it
\* raises TimeoutError from the iterator, outside the try of the loop body
LookupDeadline ==
    /\ bt.stage = "collect"
    /\ Running \cup Queued # {}
    /\ Done = {}
    /\ bt' = [bt EXCEPT !.stage = "shutdown", !.exc = "TimeoutError"]
    /\ UNCHANGED <<engineVars, sc, uq, mt, lk, ex>>

\* the with block's shutdown(wait=True) is over; nothing in process_document
\* catches the exception
LookupShutdownDone ==
    /\ bt.stage = "shutdown"
    /\ Running \cup Queued = {}
    /\ bt' = [bt EXCEPT !.stage = "raised"]
    /\ UNCHANGED <<engineVars, sc, uq, mt, lk, ex>>

\* lines 321-354: all futures collected, references built and sorted
BuildReferences ==
    /\ bt.stage = "collect"
    /\ \A i \in 1..Len(bt.futs) : bt.futs[i].state = "collected"
    /\ bt' = [bt EXCEPT !.stage = "returned",
                        !.references = sort_references(
                                          build_references(bt.unique, bt.lookup_results))]
    /\ UNCHANGED <<engineVars, sc, uq, mt, lk, ex>>

NextBatch ==
    \/ \E outcome \in SearchOutcomes : SearchMultipleStep(outcome)
    \/ SearchMultipleReturn
    \/ SubmitLookups
    \/ \E i \in 1..MaxBatch : LookupStart(i)
    \/ \E i \in 1..MaxBatch, outcome \in SearchOutcomes : LookupFinish(i, outcome)
    \/ \E i \in 1..MaxBatch : LookupCollect(i)
    \/ LookupDeadline
    \/ LookupShutdownDone
    \/ BuildReferences

SpecBatch == InitBatch /\ [][NextBatch]_vars

BatchKeys == { IdentityKey(bt.input[i]) : i \in 1..Len(bt.input) }

\* the keys of the entries the batch handed back
ReturnedKeys ==
    IF bt.mode = "search_multiple" THEN DOMAIN bt.results
    ELSE { IdentityKey(bt.references[i].citation) : i \in 1..Len(bt.references) }

\* C6: a batch over any set of citations always completes normally with
\* exactly one entry per distinct identity key; it never raises.
C6_BatchCompletes ==
    /\ bt.stage # "raised"
    /\ bt.stage = "returned" =>
          /\ ReturnedKeys = BatchKeys
          /\ bt.mode = "process_document" =>
                Len(bt.references) = Cardinality(BatchKeys)

\* C7: within a batch at most one search is dispatched per identity key.
C7_OneSearchPerKey ==
    \A i, j \in 1..Len(bt.searches) : i # j => bt.searches[i] # bt.searches[j]

-----------------------------------------------------------------------------
(***************************************************************************)
(* The verifier's matching rule: _result_matches_fragment (ai_lookup.py)   *)
(* and _fragment_matches_result (claude.py).                               *)
(***************************************************************************)
DigitChars == {"0", "1", "2", "3", "4", "5", "6", "7", "8", "9"}

LetterChars ==
    {"a", "b", "c", "d", "e", "f", "g", "h", "i", "j", "k", "l", "m", "n", "o", "p", "q",
     "r", "s", "t", "u", "v", "w", "x", "y", "z",
     "A", "B", "C", "D", "E", "F", "G", "H", "I", "J", "K", "L", "M", "N", "O", "P", "Q",
     "R", "S", "T", "U", "V", "W", "X", "Y", "Z"}

\* \w of the re module
IsWordChar(c) == c \in DigitChars \cup LetterChars \cup {"_"}

\* str.isdigit()
IsDigit(w) == w # <<>> /\ \A i \in 1..Len(w) : w[i] \in DigitChars

\* str.split(): the maximal runs of characters that are not whitespace
RECURSIVE SplitFrom(_, _, _)
SplitFrom(s, word, words) ==
    IF s = <<>> THEN (IF word = <<>> THEN words ELSE Append(words, word))
    ELSE IF IsSpace(Head(s))
    THEN SplitFrom(Tail(s), <<>>, IF word = <<>> THEN words ELSE Append(words, word))
    ELSE SplitFrom(Tail(s), Append(word, Head(s)), words)

Split(s) == SplitFrom(s, <<>>, <<>>)

\* ' '.join(list)
RECURSIVE JoinSpace(_)
JoinSpace(list) ==
    IF list = <<>> THEN <<>>
    ELSE IF Len(list) = 1 THEN list[1]
    ELSE list[1] \o <<" ">> \o JoinSpace(Tail(list))

stop_words ==
    { <<"t", "h", "e">>, <<"a">>, <<"a", "n">>, <<"o", "f">>, <<"a", "n", "d">>,
      <<"i", "n">>, <<"o", "n">>, <<"a", "t">>, <<"t", "o">>, <<"f", "o", "r">>,
      <<"b", "y">>, <<"w", "i", "t", "h">> }

IsFragmentWord(w) == Len(w) >= 3 /\ w \notin stop_words /\ ~IsDigit(w)

\* fragment_words: the words of the lower-cased fragment that count
fragment_words(fragment) == SelectSeq(Split(Lower(fragment)), IsFragmentWord)

\* searchable: the lower-cased title, then the lower-cased authors
searchable(result) ==
    Lower(result.title)
    \o (IF result.authors # <<>> THEN <<" ">> \o Lower(JoinSpace(result.authors)) ELSE <<>>)

\* matches = sum(1 for word in fragment_words if word in searchable)
count_matches(words, text) ==
    Cardinality({ i \in 1..Len(words) : IsSubstr(words[i], text) })

\* a match of \b(19|20)\d{2}\b starts at position i of s
YearAt(s, i) ==
    /\ i + 3 <= Len(s)
    /\ <<s[i], s[i + 1]>> \in { <<"1", "9">>, <<"2", "0">> }
    /\ s[i + 2] \in DigitChars /\ s[i + 3] \in DigitChars
    /\ (i = 1 \/ ~IsWordChar(s[i - 1]))
    /\ (i + 3 = Len(s) \/ ~IsWordChar(s[i + 4]))

\* re.search(r'\b(19|20)\d{2}\b', fragment): the leftmost match, or None (<<>>)
year_in_fragment(fragment) ==
    IF \E i \in 1..Len(fragment) : YearAt(fragment, i)
    THEN LET i == CHOOSE k \in 1..Len(fragment) :
                      YearAt(fragment, k) /\ \A j \in 1..(k - 1) : ~YearAt(fragment, j)
         IN  SubSeq(fragment, i, i + 3)
    ELSE <<>>

Min(a, b) == IF a <= b THEN a ELSE b

\* ai_lookup._result_matches_fragment
result_matches_fragment(result, fragment) ==
    IF result.title = <<>> THEN FALSE
    ELSE IF fragment_words(fragment) = <<>> THEN TRUE
    ELSE /\ count_matches(fragment_words(fragment), searchable(result))
               >= Min(2, Len(fragment_words(fragment)))
         /\ (year_in_fragment(fragment) # <<>> /\ result.year # <<>>)
               => year_in_fragment(fragment) = result.year

\* claude._fragment_matches_result
fragment_matches_result(fragment, result) ==
    IF result.title = <<>> THEN FALSE
    ELSE IF fragment_words(fragment) = <<>> THEN TRUE
    ELSE /\ count_matches(fragment_words(fragment), searchable(result))
               >= Min(2, Len(fragment_words(fragment)))
         /\ (year_in_fragment(fragment) # <<>> /\ result.year # <<>>)
               => year_in_fragment(fragment) = result.year

MaxWords == 3

Y1995 == <<"1", "9", "9", "5">>
Y1996 == <<"1", "9", "9", "6">>

FragmentPool ==
    { <<"C", "a", "p", "l", "a", "n">>, <<"t", "r", "a", "i", "n", "s">>, <<"b", "r", "a", "i", "n", "s">>, <<"r", "a", "i", "n">>, <<"c", "a", "p">>,
      <<"t", "h", "e">>, <<"l", "i">>, Y1995, <<"x", "1", "9", "9", "5">> }

\* the fragments: up to MaxWords words of the pool, joined by spaces
FragmentsOf(maxwords) ==
    UNION { { JoinSpace(ws) : ws \in [1..n -> FragmentPool] } : n \in 0..maxwords }

MatchCandidates ==
    [title : { <<>>, <<"T", "r", "a", "i", "n", "s", " ", "b", "r", "a", "i", "n", "s">>, <<"B", "r", "a", "i", "n", " ", "i", "n", "j", "u", "r", "y">> },
     authors : { <<>>, << <<"C", "a", "p", "l", "a", "n", ",", " ", "E">> >> },
     year : { <<>>, Y1995, Y1996 }]

InitMatch ==
    /\ mt \in [stage : {"input"}, fragment : FragmentsOf(MaxWords), result : MatchCandidates]
    /\ q = [author |-> Li, year |-> "1977", second_author |-> NoName,
            third_author |-> NoName, context |-> NoName]
    /\ env = [engines |-> {}, api_key |-> FALSE, client |-> FALSE]
    /\ pc = "idle"
    /\ fut = [p \in Providers |-> "absent"]
    /\ futRes = [p \in Providers |-> <<>>]
    /\ results = <<>> /\ gpt_results = <<>> /\ calls = <<>>
    /\ ret = Pending /\ exc = None
    /\ sc = IdleSc /\ bt = IdleBt /\ uq = IdleUq
    /\ lk = IdleLk /\ ex = IdleEx

\* _verify_against_databases applies the rule to a record an engine gave
ResultMatchesFragment ==
    /\ mt.stage = "input"
    /\ mt' = [stage |-> "judged", by |-> "ai_lookup", fragment |-> mt.fragment,
              result |-> mt.result,
              verdict |-> result_matches_fragment(mt.result, mt.fragment)]
    /\ UNCHANGED <<engineVars, sc, bt, uq, lk, ex>>

\* guess_and_search applies the rule to a record an engine gave
FragmentMatchesResult ==
    /\ mt.stage = "input"
    /\ mt' = [stage |-> "judged", by |-> "claude", fragment |-> mt.fragment,
              result |-> mt.result,
              verdict |-> fragment_matches_result(mt.fragment, mt.result)]
    /\ UNCHANGED <<engineVars, sc, bt, uq, lk, ex>>

NextMatch == ResultMatchesFragment \/ FragmentMatchesResult

SpecMatch == InitMatch /\ [][NextMatch]_vars

\* the tokens of a text: its maximal runs of letters, digits and _, lower-cased
Tokens(text) ==
    Split([i \in 1..Len(text) |-> IF IsWordChar(text[i]) THEN LowerChar(text[i]) ELSE " "])

\* the meaningful tokens of a fragment: stop-words and bare numerals removed
IsMeaningful(w) == w \notin stop_words /\ ~IsDigit(w)
MeaningfulTokens(fragment) == SelectSeq(Tokens(fragment), IsMeaningful)

\* the tokens of the candidate's title and authors
CandidateTokens(result) ==
    { Tokens(result.title)[i] : i \in 1..Len(Tokens(result.title)) }
    \cup UNION { { Tokens(result.authors[a])[i] : i \in 1..Len(Tokens(result.authors[a])) }
                 : a \in 1..Len(result.authors) }

SharedTokens(fragment, result) ==
    Cardinality({ i \in 1..Len(MeaningfulTokens(fragment)) :
                    MeaningfulTokens(fragment)[i] \in CandidateTokens(result) })

\* C13: the matching rule accepts a candidate only if at least min(2, n) of
\* the fragment's n meaningful tokens are tokens of its title or authors.
C13_MatchNeedsTokens ==
    (mt.stage = "judged" /\ mt.verdict) =>
        SharedTokens(mt.fragment, mt.result)
            >= Min(2, Len(MeaningfulTokens(mt.fragment)))

\* the rule that judged mt, applied to another candidate
VerdictOn(result) ==
    IF mt.by = "ai_lookup" THEN result_matches_fragment(result, mt.fragment)
    ELSE fragment_matches_result(mt.fragment, result)

\* C14: a fragment that contains a 4-digit year is matched only by a
\* candidate whose year is exactly that year; without a year in the
\* fragment the candidate's year does not change the verdict.
C14_YearMustMatch ==
    mt.stage = "judged" =>
        IF year_in_fragment(mt.fragment) # <<>>
        THEN mt.verdict => mt.result.year = year_in_fragment(mt.fragment)
        ELSE \A y \in { <<>>, Y1995, Y1996 } :
                 VerdictOn([mt.result EXCEPT !.year = y]) = mt.verdict

-----------------------------------------------------------------------------
(***************************************************************************)
(* ai_lookup.lookup_fragment and claude.guess_and_search: an AI guess,     *)
(* then its verification against the free databases.                       *)
(***************************************************************************)
\* the double product a * b, kept as the pair of its factors
FMul(a, b) == [product |-> <<a, b>>]

\* a JSON value of the key 'confidence'
Absent    == [kind |-> "absent"]
Number(x) == [kind |-> "number", v |-> x]
JsonStr   == [kind |-> "string"]
JsonNull  == [kind |-> "null"]

\* guess.get('confidence', 0)
get_confidence(guess) == IF guess.confidence = Absent THEN Number(F(0)) ELSE guess.confidence

\* `confidence < 0.3` and `confidence >= 0.9` raise TypeError unless confidence is a number
Comparable(c) == c.kind = "number"

TitleTrains == <<"T", "r", "a", "i", "n", "s", " ", "b", "r", "a", "i", "n", "s">>
TitleInjury == <<"B", "r", "a", "i", "n", " ", "i", "n", "j", "u", "r", "y">>
Caplan      == <<"C", "a", "p", "l", "a", "n", ",", " ", "E">>

LookupGuess(confidence, title, doi, pmid, search_query) ==
    [confidence |-> confidence, title |-> title,
     authors |-> IF title = <<>> THEN <<>> ELSE <<Caplan>>,
     year |-> Y1995, doi |-> doi, pmid |-> pmid, search_query |-> search_query]

LookupGuesses ==
    { LookupGuess(c, t, d, "", sq) :
        c \in {Absent, JsonStr, JsonNull, Number(F(20)), Number(F(30)), Number(F(50)),
               Number(F(90)), Number(F(95))},
        t \in {<<>>, TitleTrains},
        d \in {"", "10.1"},
        sq \in {<<>>, <<"C", "a", "p", "l", "a", "n">>} }
    \cup { LookupGuess(Number(F(95)), TitleTrains, "", "7", <<>>) }

\* the text _call_ai returns, by what _parse_json_response makes of it
AiResponses ==
    { [kind |-> k] : k \in {"none", "prose", "broken_json", "json_list",
                            "json_empty_list", "json_empty_object"} }
    \cup { [kind |-> k, guess |-> g] : k \in {"json_object", "fenced_json_object"},
                                        g \in LookupGuesses }

NoGuess == [kind |-> "None"]

\* ai_lookup._parse_json_response
parse_json_response(text) ==
    CASE text.kind \in {"none", "prose", "broken_json"} -> NoGuess
      [] text.kind \in {"json_list", "json_empty_list"} ->
            [kind |-> "list", empty |-> text.kind = "json_empty_list"]
      [] text.kind = "json_empty_object" -> [kind |-> "dict", empty |-> TRUE]
      [] text.kind \in {"json_object", "fenced_json_object"} ->
            [kind |-> "dict", empty |-> FALSE, guess |-> text.guess]

\* `if not guess`
Falsy(parsed) == parsed.kind = "None" \/ parsed.empty

\* ai_lookup._guess_to_metadata
guess_to_metadata(guess, raw_source) ==
    [title |-> guess.title, authors |-> guess.authors, year |-> guess.year,
     doi |-> guess.doi, pmid |-> guess.pmid, raw_source |-> raw_source,
     source_engine |-> "AI Lookup",
     confidence |-> IF guess.confidence = Absent THEN Number(F(50)) ELSE guess.confidence]

LongerThan3(w) == Len(w) > 3

FirstWords(words, n) == SubSeq(words, 1, Min(n, Len(words)))

\* authors[0].split()[-1] if authors else ''
last_name(authors) ==
    IF authors = <<>> \/ Split(authors[1]) = <<>> THEN <<>>
    ELSE Split(authors[1])[Len(Split(authors[1]))]

\* one lookup the verification makes, and what it asks of the answer
Planned(to, kind, arg, needs_title, needs_match, label) ==
    [to |-> to, kind |-> kind, arg |-> arg, needs_title |-> needs_title,
     needs_match |-> needs_match, label |-> label]

IdLookups(doi, pmid, needs_title, needs_match, crossref_label, pubmed_label) ==
    (IF doi # "" THEN << Planned("Crossref", "get_by_id", doi, needs_title, needs_match,
                                 crossref_label) >> ELSE <<>>)
    \o (IF pmid # "" THEN << Planned("PubMed", "get_by_id", pmid, needs_title, needs_match,
                                     pubmed_label) >> ELSE <<>>)

RECURSIVE Searches(_, _)
Searches(queries, engines) ==
    IF queries = <<>> THEN <<>>
    ELSE [i \in 1..Len(engines) |->
             Planned(engines[i][1], "search", Head(queries), TRUE, TRUE, engines[i][2])]
         \o Searches(Tail(queries), engines)

\* _verify_against_databases, lines 745-757: the queries built from the guess
verify_queries(guess) ==
    (IF guess.search_query # <<>> THEN <<guess.search_query>> ELSE <<>>)
    \o (IF guess.title # <<>> /\ SelectSeq(FirstWords(Split(guess.title), 5), LongerThan3) # <<>>
        THEN << JoinSpace(SelectSeq(FirstWords(Split(guess.title), 5), LongerThan3))
                \o (IF last_name(guess.authors) # <<>>
                    THEN <<" ">> \o last_name(guess.authors) ELSE <<>>) >>
        ELSE <<>>)

\* the lookups _verify_against_databases makes, in order, until one passes
verify_plan(guess) ==
    IdLookups(guess.doi, guess.pmid, FALSE, TRUE,
              "AI + Crossref (DOI verified)", "AI + PubMed (PMID verified)")
    \o Searches(FirstWords(verify_queries(guess), 2),
                << <<"Crossref", "AI + Crossref (verified)">>,
                   <<"OpenAlex", "AI + OpenAlex (verified)">>,
                   <<"PubMed", "AI + PubMed (verified)">> >>)

\* what client.messages.create gives guess_citation
GuessReplies ==
    { [kind |-> k] : k \in {"no_client", "error", "prose"} }
    \cup { [kind |-> "json_object", guess |-> g] : g \in LookupGuesses }

\* claude.guess_citation
guess_citation(reply) ==
    IF reply.kind = "json_object" THEN reply.guess
    ELSE LookupGuess(Number(F(0)), <<>>, "", "", <<>>)

\* guess_and_search, lines 428-446: queries_to_try
queries_to_try(guess) ==
    (IF guess.authors # <<>> /\ guess.title # <<>> /\ last_name(guess.authors) # <<>>
        /\ SelectSeq(FirstWords(Split(guess.title), 4), LongerThan3) # <<>>
     THEN << last_name(guess.authors) \o <<" ">>
             \o JoinSpace(SelectSeq(FirstWords(Split(guess.title), 4), LongerThan3)) >>
     ELSE <<>>)
    \o (IF guess.title # <<>> THEN <<guess.title>> ELSE <<>>)
    \o (IF guess.search_query # <<>> THEN <<guess.search_query>> ELSE <<>>)

ClaudeEngines ==
    << <<"OpenAlex", "Claude + OpenAlex">>, <<"Crossref", "Claude + Crossref">>,
       <<"PubMed", "Claude + PubMed">> >>

\* the lookups guess_and_search makes from the guess, lines 400-473
search_plan(guess) ==
    IdLookups(guess.doi, guess.pmid, TRUE, TRUE,
              "Claude + Crossref (DOI)", "Claude + PubMed (PMID)")
    \o Searches(FirstWords(queries_to_try(guess), 3), ClaudeEngines)

WebEngines ==
    << <<"OpenAlex", "Web Search + OpenAlex">>, <<"Crossref", "Web Search + Crossref">>,
       <<"PubMed", "Web Search + PubMed">> >>

\* what _web_search_citation gives: None or the parsed web result
WebResults ==
    { NoGuess }
    \cup { [kind |-> "dict", confidence |-> Number(c), title |-> t, authors |-> <<Caplan>>,
            year |-> Y1996, doi |-> d, pmid |-> ""] :
             c \in {F(60), F(70), F(90)}, t \in {<<>>, TitleTrains, TitleInjury},
             d \in {"", "10.9"} }

\* the lookups of the web-search fallback, lines 478-516
web_plan(web) ==
    IF web.kind = "dict" /\ FGeq(web.confidence.v, F(70))
    THEN IdLookups(web.doi, web.pmid, FALSE, FALSE,
                   "Web Search + Crossref (DOI)", "Web Search + PubMed (PMID)")
         \o (IF web.title # <<>> THEN Searches(<<web.title>>, WebEngines) ELSE <<>>)
    ELSE <<>>

\* records the databases may answer with
DbRecord(title, year) == [title |-> title, authors |-> <<Caplan>>, year |-> year,
                          source_engine |-> ""]

DbResponses ==
    { NoRecord, Raises }
    \cup { Record(DbRecord(t, y)) : t \in {<<>>, TitleTrains, TitleInjury},
                                    y \in {Y1995, Y1996} }

\* the condition under which the answer to a planned lookup is returned
Passes(call, resp, fragment, fn) ==
    /\ resp.kind = "record"
    /\ call.needs_title => resp.md.title # <<>>
    /\ call.needs_match =>
          IF fn = "lookup_fragment" THEN result_matches_fragment(resp.md, fragment)
          ELSE fragment_matches_result(fragment, resp.md)

LookupFragments ==
    { JoinSpace(<< <<"C", "a", "p", "l", "a", "n">>, <<"t", "r", "a", "i", "n", "s">>, <<"b", "r", "a", "i", "n", "s">> >>), JoinSpace(<< <<"C", "a", "p", "l", "a", "n">>, <<"t", "r", "a", "i", "n", "s">>, Y1995 >>) }

InitLookup ==
    /\ lk \in [stage : {"called"}, fn : {"lookup_fragment", "guess_and_search"},
               fragment : LookupFragments, verify : BOOLEAN, chain : BOOLEAN,
               text : {NoGuess}, guess : {NoGuess}, todo : {<<>>}, phase : {"guess"},
               web : {NoGuess},
               calls : {<<>>}, ret : {Pending}, exc : {None}]
    /\ lk.fn = "guess_and_search" => (lk.verify /\ lk.chain)
    /\ q = [author |-> Li, year |-> "1977", second_author |-> NoName,
            third_author |-> NoName, context |-> NoName]
    /\ env = [engines |-> {}, api_key |-> FALSE, client |-> FALSE]
    /\ pc = "idle"
    /\ fut = [p \in Providers |-> "absent"]
    /\ futRes = [p \in Providers |-> <<>>]
    /\ results = <<>> /\ gpt_results = <<>> /\ calls = <<>>
    /\ ret = Pending /\ exc = None
    /\ sc = IdleSc /\ bt = IdleBt /\ uq = IdleUq
    /\ mt = IdleMt /\ ex = IdleEx

LkReturn(value) == [lk EXCEPT !.stage = "returned", !.ret = value]
LkRaise(e)      == [lk EXCEPT !.stage = "raised", !.exc = e]

\* `confidence < 0.3` with any threshold removed
never_too_low(confidence) == FALSE

\* lookup_fragment line 691, guess_and_search line 392: `confidence < 0.3`
too_low(confidence) == FLt(confidence.v, F(30))

\* lookup_fragment, lines 666-697: the AI's guess and what is done with it
\* before any verification
AskAI(text) ==
    /\ lk.stage = "called" /\ lk.fn = "lookup_fragment"
    /\ lk' =
         IF ~lk.chain THEN LkReturn(RetNone)
         ELSE IF Falsy(parse_json_response(text))
         THEN [LkReturn(RetNone) EXCEPT !.text = text]
         ELSE IF parse_json_response(text).kind = "list"
         THEN [LkRaise("AttributeError") EXCEPT !.text = text]
         ELSE IF ~Comparable(get_confidence(text.guess))
         THEN [LkRaise("TypeError") EXCEPT !.text = text, !.guess = text.guess]
         ELSE IF too_low(get_confidence(text.guess))
         THEN [LkReturn(RetNone) EXCEPT !.text = text, !.guess = text.guess]
         ELSE IF ~lk.verify
         THEN [LkReturn(RetMd(guess_to_metadata(text.guess, lk.fragment)))
                 EXCEPT !.text = text, !.guess = text.guess]
         ELSE [lk EXCEPT !.stage = "verify", !.phase = "api", !.text = text,
                         !.guess = text.guess, !.todo = verify_plan(text.guess)]
    /\ UNCHANGED <<engineVars, sc, bt, uq, mt, ex>>

\* guess_and_search, lines 388-446: Claude's guess, the threshold, the plan
AskClaude(reply) ==
    /\ lk.stage = "called" /\ lk.fn = "guess_and_search"
    /\ lk' =
         IF ~Comparable(get_confidence(guess_citation(reply)))
         THEN [LkRaise("TypeError") EXCEPT !.text = reply, !.guess = guess_citation(reply)]
         ELSE IF too_low(get_confidence(guess_citation(reply)))
         THEN [LkReturn(RetNone) EXCEPT !.text = reply, !.guess = guess_citation(reply)]
         ELSE [lk EXCEPT !.stage = "verify", !.phase = "api", !.text = reply,
                         !.guess = guess_citation(reply),
                         !.todo = search_plan(guess_citation(reply))]
    /\ UNCHANGED <<engineVars, sc, bt, uq, mt, ex>>

\* the next planned lookup is made; the database answers resp
VerifyCall(resp) ==
    /\ lk.stage = "verify"
    /\ lk.todo # <<>>
    /\ lk' =
         IF Passes(Head(lk.todo), resp, lk.fragment, lk.fn)
         THEN [lk EXCEPT !.stage = "returned",
                         !.calls = Append(@, [to |-> Head(lk.todo).to,
                                              kind |-> Head(lk.todo).kind,
                                              arg |-> Head(lk.todo).arg]),
                         !.ret = RetMd([resp.md EXCEPT !.source_engine = Head(lk.todo).label])]
         ELSE [lk EXCEPT !.todo = Tail(@),
                         !.calls = Append(@, [to |-> Head(lk.todo).to,
                                              kind |-> Head(lk.todo).kind,
                                              arg |-> Head(lk.todo).arg])]
    /\ UNCHANGED <<engineVars, sc, bt, uq, mt, ex>>

\* `confidence >= 0.9 and title` letting every titled guess through
escape_valve_any(confidence, title) == title # <<>>

\* lookup_fragment line 707: `confidence >= 0.9 and title`
escape_valve(confidence, title) == FGeq(confidence.v, F(90)) /\ title # <<>>

\* lookup_fragment, lines 700-715: nothing verified the guess
VerificationFailed ==
    /\ lk.stage = "verify" /\ lk.fn = "lookup_fragment"
    /\ lk.todo = <<>>
    /\ lk' =
         IF escape_valve(get_confidence(lk.guess), lk.guess.title)
         THEN LkReturn(RetMd([guess_to_metadata(lk.guess, lk.fragment) EXCEPT
                                 !.source_engine = "AI Lookup (unverified)",
                                 !.confidence = FMul(get_confidence(lk.guess).v, F(80))]))
         ELSE LkReturn(RetNone)
    /\ UNCHANGED <<engineVars, sc, bt, uq, mt, ex>>

\* guess_and_search, lines 475-478: the databases verified nothing, the web
\* is searched
WebSearch(web) ==
    /\ lk.stage = "verify" /\ lk.fn = "guess_and_search"
    /\ lk.phase = "api" /\ lk.todo = <<>>
    /\ lk' = [lk EXCEPT !.phase = "web", !.web = web, !.todo = web_plan(web),
                        !.calls = Append(@, [to |-> "Web", kind |-> "web_search",
                                             arg |-> lk.fragment])]
    /\ UNCHANGED <<engineVars, sc, bt, uq, mt, ex>>

\* guess_and_search, lines 518-556: the web result itself, or None
WebFallbackEnd ==
    /\ lk.stage = "verify" /\ lk.fn = "guess_and_search"
    /\ lk.phase = "web" /\ lk.todo = <<>>
    /\ lk' =
         IF /\ lk.web.kind = "dict"
            /\ FGeq(lk.web.confidence.v, F(85))
            /\ lk.web.title # <<>>
            /\ fragment_matches_result(lk.fragment, lk.web)
         THEN LkReturn(RetMd([title |-> lk.web.title, authors |-> lk.web.authors,
                              year |-> lk.web.year, doi |-> lk.web.doi,
                              pmid |-> lk.web.pmid, raw_source |-> lk.fragment,
                              source_engine |-> "Web Search (unverified)",
                              confidence |-> lk.web.confidence]))
         ELSE LkReturn(RetNone)
    /\ UNCHANGED <<engineVars, sc, bt, uq, mt, ex>>

NextLookup ==
    \/ \E text \in AiResponses : AskAI(text)
    \/ \E reply \in GuessReplies : AskClaude(reply)
    \/ \E resp \in DbResponses : VerifyCall(resp)
    \/ VerificationFailed
    \/ \E web \in WebResults : WebSearch(web)
    \/ WebFallbackEnd

SpecLookup == InitLookup /\ [][NextLookup]_vars

\* the verification of the guess was attempted and nothing passed
FailedVerification ==
    /\ lk.fn = "lookup_fragment" /\ lk.verify
    /\ lk.stage = "returned" /\ lk.phase = "api" /\ lk.todo = <<>>

DbCalls == SelectSeq(lk.calls, LAMBDA c : c.kind \in {"get_by_id", "search"})

LowGuess ==
    /\ lk.stage # "called"
    /\ lk.guess # NoGuess
    /\ Comparable(get_confidence(lk.guess))
    /\ FLt(get_confidence(lk.guess).v, F(30))

\* C16: a guess whose self-reported confidence is below 0.3 makes
\* lookup_fragment and guess_and_search return None without any get-by-id
\* or search call to a database.
C16_LowConfidenceDiscarded ==
    LowGuess => (lk.stage = "returned" /\ lk.ret = RetNone /\ DbCalls = <<>>)

C16_Witness ==
    /\ LowGuess
    /\ lk.fn = "guess_and_search"
    /\ lk.guess.confidence = Number(F(20))
    /\ lk.guess.doi # ""
    /\ lk.stage = "returned"

\* the response cannot be read as a guess record
Unreadable ==
    \/ lk.text.kind \in {"prose", "broken_json", "json_list", "json_empty_list",
                         "json_empty_object"}
    \/ /\ lk.text.kind \in {"json_object", "fenced_json_object"}
       /\ ~Comparable(lk.text.guess.confidence)

\* C18: an AI response that cannot be read as a guess record makes
\* lookup_fragment return None, and lookup_fragment never raises because of
\* what the response contains.
C18_UnreadableIsNotFound ==
    lk.fn = "lookup_fragment" =>
        /\ lk.stage # "raised"
        /\ Unreadable => (lk.stage = "returned" /\ lk.ret = RetNone)

-----------------------------------------------------------------------------
(***************************************************************************)
(* AuthorDateExtractor.extract_from_text.  A text is a sequence of tokens  *)
(* (words and punctuation marks, each a string); the regular expressions   *)
(* are read token by token, whitespace being what separates two tokens.    *)
(* A span is a pair of token positions, start inclusive and end exclusive, *)
(* as the character offsets match.start() and match.end() are.             *)
(***************************************************************************)
TokLP      == <<"(">>
TokRP      == <<")">>
TokComma   == <<",">>
TokSemi    == <<";">>
TokAmp     == <<"&">>
TokAnd     == <<"a", "n", "d">>
TokEtAl    == <<"e", "t", " ", "a", "l", ".">>
TokSee     == <<"s", "e", "e">>
TokAlso    == <<"a", "l", "s", "o">>
TokCf      == <<"c", "f", ".">>
TokEg      == <<"e", ".", "g", ".">>
TokFor     == <<"f", "o", "r">>
TokNd      == <<"n", ".", "d", ".">>
TokInPress == <<"i", "n", " ", "p", "r", "e", "s", "s">>
TokPage    == <<"p", ".">>
TokPages   == <<"p", "p", ".">>
TokPoss    == <<"'", "s">>
TokStudies == <<"s", "t", "u", "d", "i", "e", "s">>
TokBy      == <<"b", "y">>
TokFrom    == <<"f", "r", "o", "m">>
TokOf      == <<"o", "f">>

UpperChars ==
    {"A", "B", "C", "D", "E", "F", "G", "H", "I", "J", "K", "L", "M", "N", "O", "P", "Q",
     "R", "S", "T", "U", "V", "W", "X", "Y", "Z"}

LowerChars == LetterChars \ UpperChars

NameChars == LetterChars \cup {"'", "-"}

\* the token at a position, the empty string beyond the text
At(text, i) == IF i \in 1..Len(text) THEN text[i] ELSE <<>>

\* AUTHOR_NAME, lines 67-69, on a name of one word: AUTHOR_CORE
IsAuthorName(t) ==
    /\ Len(t) >= 2
    /\ t[1] \in UpperChars
    /\ \A i \in 2..Len(t) : t[i] \in NameChars

\* AUTHOR_NAME under re.IGNORECASE
IsAuthorNameI(t) ==
    /\ Len(t) >= 2
    /\ t[1] \in LetterChars
    /\ \A i \in 2..Len(t) : t[i] \in NameChars

\* \d{4}[a-z]?
IsDigitYear(t) ==
    /\ Len(t) \in {4, 5}
    /\ \A i \in 1..4 : t[i] \in DigitChars
    /\ Len(t) = 5 => t[5] \in LowerChars

\* YEAR, line 72
IsYear(t) == IsDigitYear(t) \/ t = TokNd \/ t = TokInPress

\* CORPORATE_WORD, line 96
IsCorporateWord(t) ==
    /\ Len(t) >= 2
    /\ t[1] \in UpperChars
    /\ \A i \in 2..Len(t) : t[i] \in LetterChars

\* CITATION_PREFIX, line 90
CITATION_PREFIX == {TokSee, TokCf, TokEg, TokAlso}

\* TRIGGER_WORDS, line 86, under re.IGNORECASE
TRIGGER_WORDS == {TokStudies}

\* how many tokens one occurrence of a pattern element takes at position
\* i of the text, 0 when the element does not match there
ItemLen(text, i, c) ==
    CASE c = "lp"    -> IF At(text, i) = TokLP THEN 1 ELSE 0
      [] c = "rp"    -> IF At(text, i) = TokRP THEN 1 ELSE 0
      [] c = "comma" -> IF At(text, i) = TokComma THEN 1 ELSE 0
      [] c = "name"  -> IF IsAuthorName(At(text, i)) THEN 1 ELSE 0
      [] c = "iname" -> IF IsAuthorNameI(At(text, i)) THEN 1 ELSE 0
      [] c = "year"  -> IF IsYear(At(text, i)) THEN 1 ELSE 0
      [] c = "etal"  -> IF At(text, i) = TokEtAl THEN 1 ELSE 0
      [] c = "amp"   -> IF At(text, i) \in {TokAmp, TokAnd} THEN 1 ELSE 0
      [] c = "and"   -> IF At(text, i) = TokAnd THEN 1 ELSE 0
      [] c = "prefix" -> IF At(text, i) \in CITATION_PREFIX THEN 1 ELSE 0
      [] c = "poss"  -> IF At(text, i) = TokPoss THEN 1 ELSE 0
      [] c = "corp"  -> IF IsCorporateWord(At(text, i)) THEN 1 ELSE 0
      [] c = "trig"  -> IF Lower(At(text, i)) \in TRIGGER_WORDS THEN 1 ELSE 0
      [] c = "by"    -> IF Lower(At(text, i)) \in {TokBy, TokFrom, TokOf} THEN 1 ELSE 0
      [] c = "any"   -> IF i \in 1..Len(text) THEN 1 ELSE 0
      [] c = "page"  -> IF At(text, i) \in {TokPage, TokPages} /\ IsDigit(At(text, i + 1))
                        THEN 2 ELSE 0
      [] c = "cpage" -> IF At(text, i) = TokComma /\ At(text, i + 1) \in {TokPage, TokPages}
                           /\ IsDigit(At(text, i + 2)) THEN 3
                        ELSE IF At(text, i) \in {TokPage, TokPages}
                                /\ IsDigit(At(text, i + 1)) THEN 2 ELSE 0
      [] c = "comma_name"  -> IF At(text, i) = TokComma /\ IsAuthorName(At(text, i + 1))
                              THEN 2 ELSE 0
      [] c = "comma_iname" -> IF At(text, i) = TokComma /\ IsAuthorNameI(At(text, i + 1))
                              THEN 2 ELSE 0
      [] c = "comma_year"  -> IF At(text, i) = TokComma /\ IsYear(At(text, i + 1))
                              THEN 2 ELSE 0
      [] c = "chain_tail"  -> IF At(text, i) = TokComma
                                 /\ Lower(At(text, i + 1)) \in {TokAmp, TokAnd}
                                 /\ IsAuthorNameI(At(text, i + 2)) THEN 3
                              ELSE IF Lower(At(text, i)) \in {TokAmp, TokAnd}
                                      /\ IsAuthorNameI(At(text, i + 1)) THEN 2 ELSE 0
      [] OTHER -> 0

One(c)  == [c |-> c, q |-> "1"]
Opt(c)  == [c |-> c, q |-> "?"]
Plus(c) == [c |-> c, q |-> "+"]
Star(c) == [c |-> c, q |-> "*"]
Lazy(c) == [c |-> c, q |-> "*?"]

\* re's backtracking match of the elements pat[k..] at position i: the
\* position after the match, 0 when there is none; seen tells that the
\* repeated element pat[k] has matched once already
RECURSIVE MatchEnd(_, _, _, _, _)
MatchEnd(text, pat, k, i, seen) ==
    IF k > Len(pat) THEN i
    ELSE IF pat[k].q = "1"
    THEN (IF ItemLen(text, i, pat[k].c) = 0 THEN 0
          ELSE MatchEnd(text, pat, k + 1, i + ItemLen(text, i, pat[k].c), FALSE))
    ELSE IF pat[k].q = "?"
    THEN (IF ItemLen(text, i, pat[k].c) # 0
             /\ MatchEnd(text, pat, k + 1, i + ItemLen(text, i, pat[k].c), FALSE) # 0
          THEN MatchEnd(text, pat, k + 1, i + ItemLen(text, i, pat[k].c), FALSE)
          ELSE MatchEnd(text, pat, k + 1, i, FALSE))
    ELSE IF pat[k].q = "*?"
    THEN (IF MatchEnd(text, pat, k + 1, i, FALSE) # 0
          THEN MatchEnd(text, pat, k + 1, i, FALSE)
          ELSE IF ItemLen(text, i, pat[k].c) = 0 THEN 0
          ELSE MatchEnd(text, pat, k, i + ItemLen(text, i, pat[k].c), TRUE))
    ELSE (IF ItemLen(text, i, pat[k].c) # 0
             /\ MatchEnd(text, pat, k, i + ItemLen(text, i, pat[k].c), TRUE) # 0
          THEN MatchEnd(text, pat, k, i + ItemLen(text, i, pat[k].c), TRUE)
          ELSE IF pat[k].q = "*" \/ seen
          THEN MatchEnd(text, pat, k + 1, i, FALSE)
          ELSE 0)

\* AUTHOR_CHAIN, line 102, then \s*\((YEAR)\), under re.IGNORECASE
ChainAndYear ==
    << One("iname"), Star("comma_iname"), Opt("chain_tail"),
       One("lp"), One("year"), One("rp") >>

TRIGGER_BY_PATTERN == << One("trig"), One("by") >> \o ChainAndYear

TRIGGER_PATTERN == << One("trig"), Lazy("any") >> \o ChainAndYear

TriggerBy == 16
Trigger   == 17

\* PATTERNS[n], lines 105-211, and the two trigger patterns, lines 221-231
PATTERNS(n) ==
    CASE n = 0 -> << One("lp"), One("name"), One("etal"), Opt("comma"), One("year"),
                     Opt("cpage"), One("rp") >>
      [] n = 1 -> << One("lp"), One("name"), One("amp"), One("name"), Opt("comma"),
                     One("year"), Opt("cpage"), One("rp") >>
      [] n = 2 -> << One("lp"), One("name"), One("comma"), One("year"), Opt("cpage"),
                     One("rp") >>
      [] n = 3 -> << One("name"), One("lp"), One("year"), One("comma"), One("page"),
                     One("rp") >>
      [] n = 4 -> << One("name"), One("lp"), One("year"), One("rp") >>
      [] n = 5 -> << One("name"), One("etal"), One("lp"), One("year"), One("rp") >>
      [] n = 6 -> << One("name"), One("amp"), One("name"), One("lp"), One("year"),
                     One("rp") >>
      [] n = 7 -> << One("name"), Plus("comma_name"), Opt("comma"), One("and"), One("name"),
                     One("lp"), One("year"), One("rp") >>
      [] n = 8 -> << One("name"), One("poss"), One("lp"), One("year"), One("rp") >>
      [] n = 9 -> << One("lp"), One("name"), Plus("comma_name"), Opt("comma"), One("amp"),
                     One("name"), One("comma"), One("year"), Opt("cpage"), One("rp") >>
      [] n = 10 -> << One("lp"), One("name"), One("comma"), One("year"), Plus("comma_year"),
                      One("rp") >>
      [] n = 11 -> << One("lp"), One("prefix"), One("name"), One("comma"), One("year"),
                      Opt("cpage"), One("rp") >>
      [] n = 12 -> << One("lp"), One("prefix"), One("name"), One("amp"), One("name"),
                      One("comma"), One("year"), Opt("cpage"), One("rp") >>
      [] n = 13 -> << One("lp"), One("prefix"), One("name"), One("etal"), Opt("comma"),
                      One("year"), Opt("cpage"), One("rp") >>
      [] n = 14 -> << One("corp"), Plus("corp"), One("lp"), One("year"), One("rp") >>
      [] n = 15 -> << One("lp"), One("corp"), Plus("corp"), One("comma"), One("year"),
                      One("rp") >>
      [] n = TriggerBy -> TRIGGER_BY_PATTERN
      [] n = Trigger   -> TRIGGER_PATTERN

\* the closing parentheses after position i
ClosingAfter(text, i) == {j \in (i + 1)..Len(text) : text[j] = TokRP}

FirstClosing(text, i) ==
    IF ClosingAfter(text, i) = {} THEN 0
    ELSE CHOOSE j \in ClosingAfter(text, i) : \A k \in ClosingAfter(text, i) : j <= k

\* MULTI_CITATION, lines 234-237: \(([^)]+;\s*[^)]+)\) matched at position i
MULTI_CITATION(text, i) ==
    IF /\ At(text, i) = TokLP
       /\ FirstClosing(text, i) # 0
       /\ \E k \in (i + 2)..(FirstClosing(text, i) - 2) : text[k] = TokSemi
    THEN FirstClosing(text, i) + 1
    ELSE 0

MultiCitation == 0 - 1

\* where a match of pass n starting at position i ends, 0 for no match
EndAt(text, n, i) ==
    IF n = MultiCitation THEN MULTI_CITATION(text, i)
    ELSE MatchEnd(text, PATTERNS(n), 1, i, FALSE)

\* pattern.finditer(text) from position i on: the spans of the matches, left
\* to right, none overlapping another
RECURSIVE finditer(_, _, _)
finditer(text, n, i) ==
    IF i > Len(text) THEN <<>>
    ELSE IF EndAt(text, n, i) # 0
    THEN << <<i, EndAt(text, n, i)>> >> \o finditer(text, n, EndAt(text, n, i))
    ELSE finditer(text, n, i + 1)

\* AuthorYearCitation as a pattern pass builds it; raw_text, the matched
\* text, is held as the span of the text it is
Citation(author, year, is_et_al, second_author, third_author, start, end) ==
    [author |-> author, year |-> year, is_et_al |-> is_et_al,
     second_author |-> second_author, third_author |-> third_author,
     raw_text |-> [start |-> start, end |-> end]]

\* str.split(sep) and re.split over tokens: the parts between separators,
\* empty parts kept
RECURSIVE SplitOnFrom(_, _, _, _)
SplitOnFrom(s, seps, part, parts) ==
    IF s = <<>> THEN Append(parts, part)
    ELSE IF Head(s) \in seps THEN SplitOnFrom(Tail(s), seps, <<>>, Append(parts, part))
    ELSE SplitOnFrom(Tail(s), seps, Append(part, Head(s)), parts)

SplitOn(s, seps) == SplitOnFrom(s, seps, <<>>, <<>>)

\* line 648: one leading "see", "e.g.", "cf." or "also" is removed
StripLead(segment) ==
    IF Len(segment) >= 2 /\ Lower(Head(segment)) \in {TokSee, TokEg, TokCf, TokAlso}
    THEN Tail(segment) ELSE segment

\* line 650: a trailing " for ..." is removed
ForAt(segment) == {k \in 2..(Len(segment) - 1) : Lower(segment[k]) = TokFor}

StripFor(segment) ==
    IF ForAt(segment) = {} THEN segment
    ELSE SubSeq(segment, 1, (CHOOSE k \in ForAt(segment) : \A m \in ForAt(segment) : k <= m) - 1)

\* lines 657-660: years only, each possibly followed by a comma
IsYearList(ts) ==
    /\ ts # <<>>
    /\ \A i \in 1..Len(ts) :
          \/ IsDigitYear(ts[i])
          \/ ts[i] = TokComma /\ i > 1 /\ IsDigitYear(ts[i - 1])

IsMultiYear(segment) ==
    /\ Len(segment) >= 3
    /\ IsAuthorName(segment[1])
    /\ segment[2] = TokComma
    /\ IsYearList(SubSeq(segment, 3, Len(segment)))
    /\ Len(SelectSeq(segment, IsDigitYear)) > 1

\* str.rstrip(',')
RECURSIVE RStripCommas(_)
RStripCommas(s) ==
    IF s # <<>> /\ s[Len(s)] = TokComma THEN RStripCommas(SubSeq(s, 1, Len(s) - 1)) ELSE s

\* line 684: the segment without its year
AuthorPart(segment) == RStripCommas(SubSeq(segment, 1, Len(segment) - 1))

\* lines 707-709: the parts that start with a capital letter
IsCapitalized(part) == part # <<>> /\ part[1][1] \in UpperChars

SegmentAuthors(part) ==
    SelectSeq(SplitOn(part, {TokComma, TokAmp, TokAnd}), IsCapitalized)

\* lines 686-752 of _parse_multi_author_segment: the segment has a year at
\* its end and part before it
ParseAuthorPart(part, year, start, end) ==
    IF part = <<>> THEN <<>>
    ELSE IF /\ \E i \in 1..Len(part) : part[i] = TokEtAl
            /\ Len(part) >= 2
            /\ IsAuthorNameI(part[1]) /\ part[2] = TokEtAl
    THEN << Citation(part[1], year, TRUE, NoName, NoName, start, end) >>
    ELSE IF /\ \E i \in 1..Len(part) : Lower(part[i]) \in {TokAmp, TokAnd}
            /\ Len(SegmentAuthors(part)) >= 1
    THEN (IF Len(SegmentAuthors(part)) = 2
          THEN << Citation(JoinSpace(SegmentAuthors(part)[1]), year, FALSE,
                           JoinSpace(SegmentAuthors(part)[2]), NoName, start, end) >>
          ELSE IF Len(SegmentAuthors(part)) >= 3
          THEN << Citation(JoinSpace(SegmentAuthors(part)[1]), year, TRUE,
                           JoinSpace(SegmentAuthors(part)[2]),
                           JoinSpace(SegmentAuthors(part)[3]), start, end) >>
          ELSE << Citation(JoinSpace(SegmentAuthors(part)[1]), year, FALSE,
                           NoName, NoName, start, end) >>)
    ELSE IF IsAuthorName(part[1])
    THEN << Citation(part[1], year, FALSE, NoName, NoName, start, end) >>
    ELSE <<>>

\* lines 652-684 of _parse_multi_author_segment, on the cleaned segment
ParseSegment(segment, start, end) ==
    IF segment = <<>> THEN <<>>
    ELSE IF IsMultiYear(segment)
    THEN [i \in 1..Len(SelectSeq(segment, IsDigitYear)) |->
             Citation(segment[1], SelectSeq(segment, IsDigitYear)[i], FALSE, NoName, NoName,
                      start, end)]
    ELSE IF ~IsYear(segment[Len(segment)]) THEN <<>>
    ELSE ParseAuthorPart(AuthorPart(segment), segment[Len(segment)], start, end)

\* AuthorDateExtractor._parse_multi_author_segment
parse_multi_author_segment(segment, start, end) ==
    ParseSegment(StripFor(StripLead(segment)), start, end)

\* lines 579-581 of _parse_author_chain: names of more than one character
\* that start with a capital letter
IsChainName(part) ==
    part # <<>> /\ Len(JoinSpace(part)) > 1 /\ part[1][1] \in UpperChars

ChainAuthors(chain) == SelectSeq(SplitOn(chain, {TokComma, TokAmp, TokAnd}), IsChainName)

\* AuthorDateExtractor._parse_author_chain: no citation, or one
parse_author_chain(chain, year, start, end) ==
    IF chain = <<>> THEN <<>>
    ELSE IF \E i \in 1..Len(chain) :
               chain[i] \in {TokComma, TokAmp} \/ IsSubstr(TokAnd, Lower(chain[i]))
    THEN (IF Len(ChainAuthors(chain)) = 0 THEN <<>>
          ELSE IF Len(ChainAuthors(chain)) = 2
          THEN << Citation(JoinSpace(ChainAuthors(chain)[1]), year, FALSE,
                           JoinSpace(ChainAuthors(chain)[2]), NoName, start, end) >>
          ELSE IF Len(ChainAuthors(chain)) >= 3
          THEN << Citation(JoinSpace(ChainAuthors(chain)[1]), year, TRUE,
                           JoinSpace(ChainAuthors(chain)[2]),
                           JoinSpace(ChainAuthors(chain)[3]), start, end) >>
          ELSE << Citation(JoinSpace(ChainAuthors(chain)[1]), year, FALSE, NoName, NoName,
                           start, end) >>)
    ELSE << Citation(JoinSpace(chain), year, FALSE, NoName, NoName, start, end) >>

\* the locals of a run that goes on from the citations the instance holds
LeftoverCitations ==
    [citations |-> ex.self_citations, found_spans |-> {}, found_keys |-> {}, calls |-> <<>>,
     claimed |-> <<>>]

\* the locals of extract_from_text, lines 264-266, with the record of the
\* add_if_new calls made and of the spans put into found_spans
NoCitations ==
    [citations |-> <<>>, found_spans |-> {}, found_keys |-> {}, calls |-> <<>>,
     claimed |-> <<>>]

Called(st, pattern, start, end, added) ==
    [st EXCEPT !.calls = Append(@, [pattern |-> pattern, start |-> start, end |-> end,
                                    added |-> added])]

Claimed(st, pattern, start, end) ==
    [st EXCEPT !.found_spans = @ \cup {<<start, end>>},
               !.claimed = Append(@, [pattern |-> pattern, start |-> start, end |-> end])]

Overlapping(start, end, spans) ==
    \E span \in spans : start < span[2] /\ end > span[1]

\* lines 284-285 of add_if_new
Appended(st, citation) ==
    [st EXCEPT !.found_keys = @ \cup {<<Lower(citation.author), citation.year>>},
               !.citations = Append(@, citation)]

\* add_if_new, lines 268-286, called by the pass of a pattern
add_if_new(st, citation, start, end, use_span, pattern) ==
    IF use_span
    THEN (IF Overlapping(start, end, st.found_spans)
          THEN Called(st, pattern, start, end, FALSE)
          ELSE Appended(Claimed(Called(st, pattern, start, end, TRUE), pattern, start, end),
                        citation))
    ELSE (IF <<Lower(citation.author), citation.year>> \in st.found_keys
          THEN Called(st, pattern, start, end, FALSE)
          ELSE Appended(Called(st, pattern, start, end, TRUE), citation))

RECURSIVE AddEach(_, _, _, _, _, _)
AddEach(st, parsed, start, end, use_span, pattern) ==
    IF parsed = <<>> THEN st
    ELSE AddEach(add_if_new(st, Head(parsed), start, end, use_span, pattern),
                 Tail(parsed), start, end, use_span, pattern)

\* lines 298-307: the segments of one semicolon-joined parenthetical
RECURSIVE AddSegments(_, _, _, _)
AddSegments(st, segments, start, end) ==
    IF segments = <<>> THEN st
    ELSE AddSegments(AddEach(st, parse_multi_author_segment(Head(segments), start, end),
                             start, end, FALSE, MultiCitation),
                     Tail(segments), start, end)

\* lines 290-307: the multi-citation pass
RECURSIVE MultiCitationPass(_, _, _)
MultiCitationPass(st, text, matches) ==
    IF matches = <<>> THEN st
    ELSE MultiCitationPass(
             AddSegments(Claimed(st, MultiCitation, Head(matches)[1], Head(matches)[2]),
                         SplitOn(SubSeq(text, Head(matches)[1] + 1, Head(matches)[2] - 2),
                                 {TokSemi}),
                         Head(matches)[1], Head(matches)[2]),
             text, Tail(matches))

Matched(text, start, end) == SubSeq(text, start, end - 1)

\* the citation a single-citation pattern makes of its match
CitationOf(text, n, start, end) ==
    Citation(IF n \in {14, 15}
             THEN JoinSpace(SelectSeq(Matched(text, start, end), IsCorporateWord))
             ELSE SelectSeq(Matched(text, start, end), IsAuthorName)[1],
             SelectSeq(Matched(text, start, end), IsYear)[1],
             n \in {0, 5, 7, 9, 13},
             IF n \in {1, 6, 12} THEN SelectSeq(Matched(text, start, end), IsAuthorName)[2]
             ELSE NoName,
             NoName, start, end)

\* lines 411-422: one citation for each year of the list
YearCitations(text, start, end) ==
    [i \in 1..Len(SelectSeq(Matched(text, start, end), IsYear)) |->
        Citation(text[start + 1], SelectSeq(Matched(text, start, end), IsYear)[i], FALSE,
                 NoName, NoName, start, end)]

\* where the author chain of a trigger match begins
ChainStart(text, n, start, end) ==
    IF n = TriggerBy THEN start + 2
    ELSE CHOOSE p \in (start + 1)..end :
            /\ MatchEnd(text, ChainAndYear, 1, p, FALSE) # 0
            /\ \A p2 \in (start + 1)..(p - 1) : MatchEnd(text, ChainAndYear, 1, p2, FALSE) = 0

\* the body of the loop over the matches of pattern n
OnMatch(st, text, n, start, end) ==
    IF n = 2 /\ \E i \in start..(end - 1) : Lower(text[i]) \in {TokEtAl, TokAmp, TokAnd}
    THEN st
    ELSE IF n = 10
    THEN AddEach(st, YearCitations(text, start, end), start, end, FALSE, n)
    ELSE IF n \in {TriggerBy, Trigger}
    THEN AddEach(st, parse_author_chain(SubSeq(text, ChainStart(text, n, start, end), end - 4),
                                        text[end - 2], start, end),
                 start, end, TRUE, n)
    ELSE AddEach(st, << CitationOf(text, n, start, end) >>, start, end, TRUE, n)

RECURSIVE PatternPass(_, _, _, _)
PatternPass(st, text, n, matches) ==
    IF matches = <<>> THEN st
    ELSE PatternPass(OnMatch(st, text, n, Head(matches)[1], Head(matches)[2]),
                     text, n, Tail(matches))

\* lines 310-510: the order in which the patterns are tried
PassOrder == << 6, 5, 0, 1, 2, 3, 7, 8, 9, 10, 14, 15, 4, 11, 12, 13, TriggerBy, Trigger >>

RECURSIVE RunPasses(_, _, _)
RunPasses(st, text, order) ==
    IF order = <<>> THEN st
    ELSE RunPasses(PatternPass(st, text, Head(order), finditer(text, Head(order), 1)),
                   text, Tail(order))

\* AuthorDateExtractor.extract_from_text
extract_from_text(text) ==
    RunPasses(MultiCitationPass(NoCitations, text, finditer(text, MultiCitation, 1)),
              text, PassOrder)

MaxPhrases == 2

Parenthetical(author, year) == << TokLP, author, TokComma, year, TokRP >>

\* the citations a text is made of
Phrases ==
    { Parenthetical(Li, Y77), Parenthetical(Ko, Y78), Parenthetical(Li, Y78),
      << Ko, TokLP, Y78, TokRP >>,
      << Li, TokEtAl, TokLP, Y77, TokRP >>,
      << TokLP, Li, TokComma, Y77, TokComma, Y78, TokRP >>,
      << TokLP, Li, TokComma, Y77, TokSemi, Ko, TokComma, Y78, TokRP >>,
      << TokLP, Li, TokComma, Y77, TokSemi, Li, TokComma, Y77, TokRP >>,
      << TokLP, Ko, TokComma, Y78, TokSemi, TokSee, TokAlso,
         TokLP, Li, TokComma, Y77, TokComma, Y78, TokRP, TokRP >>,
      << TokLP, Li, TokAmp, Ko, TokComma, Y77, TokRP >>,
      << Li, TokAnd, Ko, TokLP, Y78, TokRP >>,
      << TokLP, Li, TokEtAl, TokComma, Y77, TokRP >>,
      << TokLP, TokSee, Li, TokComma, Y77, TokRP >>,
      << TokLP, Li, TokComma, Ko, TokComma, TokAmp, Ng, TokComma, Y77, TokSemi,
         Ko, TokComma, Y78, TokRP >>,
      << TokStudies, TokBy, li, TokLP, Y77, TokRP >> }

RECURSIVE Concat(_)
Concat(phrases) == IF phrases = <<>> THEN <<>> ELSE Head(phrases) \o Concat(Tail(phrases))

Texts(maxphrases) ==
    UNION { { Concat(p) : p \in [1..n -> Phrases] } : n \in 1..maxphrases }

InitExtract ==
    /\ ex \in [stage : {"text"}, text : Texts(MaxPhrases)]
    /\ q = [author |-> Li, year |-> "1977", second_author |-> NoName,
            third_author |-> NoName, context |-> NoName]
    /\ env = [engines |-> {}, api_key |-> FALSE, client |-> FALSE]
    /\ pc = "idle"
    /\ fut = [p \in Providers |-> "absent"]
    /\ futRes = [p \in Providers |-> <<>>]
    /\ results = <<>> /\ gpt_results = <<>> /\ calls = <<>>
    /\ ret = Pending /\ exc = None
    /\ sc = IdleSc /\ bt = IdleBt /\ uq = IdleUq
    /\ mt = IdleMt /\ lk = IdleLk

\* extract_author_date_citations, line 825: extractor.extract_from_text(text)
ExtractFromText ==
    /\ ex.stage = "text"
    /\ ex' = [stage |-> "extracted", text |-> ex.text,
              citations |-> extract_from_text(ex.text).citations,
              calls |-> extract_from_text(ex.text).calls,
              claimed |-> extract_from_text(ex.text).claimed]
    /\ UNCHANGED <<engineVars, sc, bt, uq, mt, lk>>

\* extract_author_date_citations, line 826: extractor.get_unique_citations()
GetUniqueCitations ==
    /\ ex.stage = "extracted"
    /\ ex' = [stage |-> "unique", text |-> ex.text, citations |-> ex.citations,
              calls |-> ex.calls, claimed |-> ex.claimed,
              unique |-> get_unique_citations(ex.citations)]
    /\ UNCHANGED <<engineVars, sc, bt, uq, mt, lk>>

NextExtract == ExtractFromText \/ GetUniqueCitations

SpecExtract == InitExtract /\ [][NextExtract]_vars

\* the place of a pattern in the order the passes run in
Rank(n) ==
    IF n = MultiCitation THEN 0 ELSE CHOOSE k \in 1..Len(PassOrder) : PassOrder[k] = n

Extracted == ex.stage \in {"extracted", "unique"}

\* the add_if_new calls that added a citation from the given span in the
\* pass of the given pattern
AddedFrom(pattern, start, end) ==
    {i \in 1..Len(ex.calls) :
        /\ ex.calls[i].added /\ ex.calls[i].pattern = pattern
        /\ ex.calls[i].start = start /\ ex.calls[i].end = end}

TwoSegments(start, end) ==
    Len(SplitOn(SubSeq(ex.text, start + 1, end - 2), {TokSemi})) = 2

\* C11: once a pattern has claimed a span, no pattern tried later adds a
\* citation from a match that overlaps the span; and a parenthetical of two
\* semicolon-separated segments yields exactly one citation per segment.
C11_SpanExclusive ==
    Extracted =>
        /\ \A i \in 1..Len(ex.calls), j \in 1..Len(ex.claimed) :
              (ex.calls[i].added /\ Rank(ex.claimed[j].pattern) < Rank(ex.calls[i].pattern))
              => ~Overlapping(ex.calls[i].start, ex.calls[i].end,
                              {<<ex.claimed[j].start, ex.claimed[j].end>>})
        /\ \A j \in 1..Len(ex.claimed) :
              (ex.claimed[j].pattern = MultiCitation
               /\ TwoSegments(ex.claimed[j].start, ex.claimed[j].end))
              => Cardinality(AddedFrom(MultiCitation, ex.claimed[j].start,
                                       ex.claimed[j].end)) = 2

\* the years a multi-year parenthetical lists
ListedYears(start, end) ==
    {ex.text[i] : i \in {k \in start..(end - 1) : IsYear(ex.text[k])}}

\* the citations extraction made of the text between two positions
CitationsOf(start, end) ==
    {i \in 1..Len(ex.citations) :
        ex.citations[i].raw_text = [start |-> start, end |-> end]}

C20_FirstOccurrenceOrder ==
    ex.stage = "unique" =>
        /\ \A i, j \in 1..Len(ex.unique) :
              i < j => ex.unique[i].raw_text.start <= ex.unique[j].raw_text.start
        /\ \A i \in 1..Len(ex.unique), k \in 1..Len(ex.citations) :
              search_key(ex.unique[i]) = search_key(ex.citations[k])
              => ex.unique[i].raw_text.start <= ex.citations[k].raw_text.start

-----------------------------------------------------------------------------
(***************************************************************************)
(* One extractor instance run twice on a text, and a second, fresh         *)
(* instance run on the same text.                                          *)
(***************************************************************************)
\* AuthorDateExtractor.extract_from_text as a method: what it returns and
\* what it leaves in self.citations; lines 260-261 return before anything
\* is assigned
extract_method(self_citations, text) ==
    IF text = <<>> THEN [ret |-> <<>>, self_citations |-> self_citations]
    ELSE [ret |-> extract_from_text(text).citations,
          self_citations |-> extract_from_text(text).citations]

InitRerun ==
    /\ ex \in [stage : {"new"}, text : Texts(MaxPhrases) \cup {<<>>},
                self_citations : {<<>>}]
    /\ q = [author |-> Li, year |-> "1977", second_author |-> NoName,
            third_author |-> NoName, context |-> NoName]
    /\ env = [engines |-> {}, api_key |-> FALSE, client |-> FALSE]
    /\ pc = "idle"
    /\ fut = [p \in Providers |-> "absent"]
    /\ futRes = [p \in Providers |-> <<>>]
    /\ results = <<>> /\ gpt_results = <<>> /\ calls = <<>>
    /\ ret = Pending /\ exc = None
    /\ sc = IdleSc /\ bt = IdleBt /\ uq = IdleUq
    /\ mt = IdleMt /\ lk = IdleLk

\* AuthorDateExtractor() then extract_from_text(text)
FirstRun ==
    /\ ex.stage = "new"
    /\ ex' = [stage |-> "ran", text |-> ex.text,
              self_citations |-> extract_method(ex.self_citations, ex.text).self_citations,
              first |-> extract_method(ex.self_citations, ex.text).ret]
    /\ UNCHANGED <<engineVars, sc, bt, uq, mt, lk>>

\* extract_from_text(text) again on the same instance
RunAgain ==
    /\ ex.stage = "ran"
    /\ ex' = [stage |-> "ran_again", text |-> ex.text, instance |-> "same",
              self_citations |-> extract_method(ex.self_citations, ex.text).self_citations,
              first |-> ex.first,
              second |-> extract_method(ex.self_citations, ex.text).ret]
    /\ UNCHANGED <<engineVars, sc, bt, uq, mt, lk>>

\* extract_from_text(text) on another AuthorDateExtractor()
RunFresh ==
    /\ ex.stage = "ran"
    /\ ex' = [stage |-> "ran_again", text |-> ex.text, instance |-> "fresh",
              self_citations |-> extract_method(<<>>, ex.text).self_citations,
              first |-> ex.first,
              second |-> extract_method(<<>>, ex.text).ret]
    /\ UNCHANGED <<engineVars, sc, bt, uq, mt, lk>>

NextRerun == FirstRun \/ RunAgain \/ RunFresh

SpecRerun == InitRerun /\ [][NextRerun]_vars

-----------------------------------------------------------------------------
(***************************************************************************)
(* Further properties of AuthorDateEngine.search.                          *)
(***************************************************************************)
\* the ways the GPT-4o request can fail
GptFailures == {"post_raises", "status_error", "body_not_json", "content_not_json"}

\* the Tier-2 request was sent and failed
Gpt4oFailed ==
    \E i \in 1..Len(calls) :
        calls[i].to = "gpt4o" /\ calls[i].sent /\ calls[i].reply.kind \in GptFailures

\* C22: a failed GPT-4o call (network error, timeout, non-200 status, a
\* body or content that is not JSON) never makes search raise, and search
\* goes on to the Claude tier.
C22_Gpt4oFailureFallsThrough ==
    Gpt4oFailed =>
        /\ pc # "raised"
        /\ Terminated => TierEntered("claude")

\* C27: the reference put into the prompt of an AI tier lists the
\* citation's primary, second and third author and its year, and the
\* document context is the topic hint only.
C27_PromptReference ==
    \A i \in 1..Len(calls) :
        (calls[i].to \in AITiers /\ calls[i].sent) =>
            /\ calls[i].ref = citation_ref(q.author, q.year, q.second_author,
                                           q.third_author)
            /\ calls[i].hint = q.context

\* the place of a provider in the priority order
Priority(p) == CHOOSE k \in 1..Len(SubmitOrder) : SubmitOrder[k] = p

HasDoi(r) == r.metadata.doi # ""

\* C25: of the Tier-1 candidates that share the highest score, search
\* returns one that carries a DOI if any does, and among those alike in
\* that, the one of the provider that comes first in priority order.
C25_TieBreak ==
    (pc = "returned" /\ Tier1Promotable /\ ret.kind = "metadata") =>
        \A i, j \in 1..Len(Tier1Collected) :
            (ReturnedIs(Tier1Collected[i])
             /\ Tier1Collected[j].confidence = Tier1Collected[i].confidence) =>
                /\ HasDoi(Tier1Collected[j]) => HasDoi(Tier1Collected[i])
                /\ (HasDoi(Tier1Collected[j]) <=> HasDoi(Tier1Collected[i])) =>
                      Priority(Tier1Collected[i].metadata.source_engine)
                      <= Priority(Tier1Collected[j].metadata.source_engine)

\* C29: a record of a free provider is returned only if the surname of the
\* cited primary author occurs in one of the record's authors.
C29_PrimaryAuthorMatches ==
    (pc = "returned" /\ ret.kind = "metadata" /\ ret.md.source_engine \in Providers) =>
        \E i \in 1..Len(ret.md.authors) : IsSubstr(Lower(q.author), Lower(ret.md.authors[i]))

-----------------------------------------------------------------------------
(***************************************************************************)
(* The scoring table, in hundredths.                                       *)
(***************************************************************************)
NameMatches(md, name) ==
    \E i \in 1..Len(md.authors) : IsSubstr(Lower(name), Lower(md.authors[i]))

YearWithinOne(md, year) ==
    /\ IsNumeral(md.year) /\ IsNumeral(year)
    /\ ToInt(md.year) - ToInt(year) \in {0 - 1, 0, 1}

TableSum(md, query) ==
      (IF md.year = query.year THEN 30 ELSE IF YearWithinOne(md, query.year) THEN 20 ELSE 0)
    + (IF NameMatches(md, query.author) THEN 30 ELSE 0)
    + (IF query.second_author # NoName /\ NameMatches(md, query.second_author)
       THEN 15 ELSE 0)
    + (IF query.third_author # NoName /\ NameMatches(md, query.third_author)
       THEN 10 ELSE 0)
    + (IF md.doi # "" THEN 15 ELSE 0 - 5)
    + (IF md.title # "" THEN 5 ELSE 0)
    + (IF md.journal # "" \/ md.publisher # "" THEN 5 ELSE 0)
    + (IF md.volume # "" \/ md.pages # "" THEN 5 ELSE 0)

TableScore(md, query) ==
    IF TableSum(md, query) < 0 THEN 0
    ELSE IF TableSum(md, query) > 100 THEN 100 ELSE TableSum(md, query)

\* C24: _calculate_confidence is the sum of the table's contributions,
\* clamped to [0, 1] (compared in hundredths, whatever the rounding of the
\* float sum).
C24_ScoreIsTable ==
    sc.stage = "scored" =>
        calculate_confidence(sc.md, sc.query.author, sc.query.year,
                             sc.query.second_author, sc.query.third_author).n
        = TableScore(sc.md, sc.query)

-----------------------------------------------------------------------------
(***************************************************************************)
(* Further properties of the verification of a guess.                      *)
(***************************************************************************)
\* the record returned came from a database or from the web search, not
\* from the guess itself
FromLookup ==
    /\ lk.stage = "returned" /\ lk.ret.kind = "metadata"
    /\ lk.ret.md.source_engine \notin {"AI Lookup", "AI Lookup (unverified)"}

\* C23: every record guess_and_search or _verify_against_databases returns,
\* found by DOI/PMID, by a constructed query or by the web-search fallback,
\* passes the matching rule against the original fragment.
C23_ReturnedRecordMatches ==
    FromLookup =>
        IF lk.fn = "lookup_fragment" THEN result_matches_fragment(lk.ret.md, lk.fragment)
        ELSE fragment_matches_result(lk.fragment, lk.ret.md)

-----------------------------------------------------------------------------
(***************************************************************************)
(* ai_lookup._call_ai: the chain of AI providers.                          *)
(***************************************************************************)
MaxChain == 3

KnownProviders == {"gemini", "openai", "claude"}

\* the names AI_PROVIDER_CHAIN may list, stripped and lowered; "" is a name
\* that was blank
ChainNames == KnownProviders \cup {"mistral", ""}

DefaultChain == <<"gemini", "openai", "claude">>

\* AI_PROVIDER_CHAIN, lines 60-64, from the names of the environment variable
\* (unset: those of the default)
AI_PROVIDER_CHAIN(names) ==
    IF SelectSeq(names, LAMBDA p : p # "") = <<>> THEN DefaultChain
    ELSE SelectSeq(names, LAMBDA p : p # "")

\* ACTIVE_CHAIN, line 81: the providers of the chain that have a key
ACTIVE_CHAIN(names, keys) == SelectSeq(AI_PROVIDER_CHAIN(names), LAMBDA p : p \in keys)

\* what a call of a provider does: it raises, or returns None, '' or a text
AiOutcomes == {"raises", "none", "empty", "text"}

\* `if result` taking whatever a provider returned
any_result(outcome) == outcome # "raises"

\* _call_ai line 111: `if result`
truthy_result(outcome) == outcome = "text"

InitCallAI ==
    /\ \E names \in UNION { [1..n -> ChainNames] : n \in 1..MaxChain },
          keys \in SUBSET KnownProviders :
          mt = [stage |-> "loop", chain |-> ACTIVE_CHAIN(names, keys), i |-> 1,
                invoked |-> <<>>, ret |-> Pending]
    /\ q = [author |-> Li, year |-> "1977", second_author |-> NoName,
            third_author |-> NoName, context |-> NoName]
    /\ env = [engines |-> {}, api_key |-> FALSE, client |-> FALSE]
    /\ pc = "idle"
    /\ fut = [p \in Providers |-> "absent"]
    /\ futRes = [p \in Providers |-> <<>>]
    /\ results = <<>> /\ gpt_results = <<>> /\ calls = <<>>
    /\ ret = Pending /\ exc = None
    /\ sc = IdleSc /\ bt = IdleBt /\ uq = IdleUq
    /\ lk = IdleLk /\ ex = IdleEx

\* _call_ai, lines 100-116: one turn of the loop over ACTIVE_CHAIN
CallProvider(outcome) ==
    /\ mt.stage = "loop"
    /\ mt.i <= Len(mt.chain)
    /\ mt' =
         IF mt.chain[mt.i] \notin KnownProviders
         THEN [mt EXCEPT !.i = @ + 1]
         ELSE IF truthy_result(outcome)
         THEN [mt EXCEPT !.stage = "returned",
                         !.invoked = Append(@, [provider |-> mt.chain[mt.i],
                                                outcome |-> outcome]),
                         !.ret = [kind |-> outcome, from |-> mt.chain[mt.i]]]
         ELSE [mt EXCEPT !.i = @ + 1,
                         !.invoked = Append(@, [provider |-> mt.chain[mt.i],
                                                outcome |-> outcome])]
    /\ UNCHANGED <<engineVars, sc, bt, uq, lk, ex>>

\* _call_ai, line 118: the chain is exhausted
ChainExhausted ==
    /\ mt.stage = "loop"
    /\ mt.i > Len(mt.chain)
    /\ mt' = [mt EXCEPT !.stage = "returned", !.ret = RetNone]
    /\ UNCHANGED <<engineVars, sc, bt, uq, lk, ex>>

NextCallAI ==
    \/ \E outcome \in AiOutcomes : CallProvider(outcome)
    \/ ChainExhausted

SpecCallAI == InitCallAI /\ [][NextCallAI]_vars

FailedOutcomes == {"raises", "none", "empty"}

\* C28: _call_ai invokes the providers of the active chain in order, the
\* next one only after all the earlier ones raised or returned nothing; it
\* returns the first non-empty response, invokes nobody after it, and
\* returns None only when every provider of the chain failed.
C28_ChainInOrder ==
    /\ Len(mt.invoked) <= Len(mt.chain)
    /\ \A j \in 1..Len(mt.invoked) :
          /\ mt.invoked[j].provider = mt.chain[j]
          /\ j < Len(mt.invoked) => mt.invoked[j].outcome \in FailedOutcomes
    /\ (mt.invoked # <<>> /\ mt.invoked[Len(mt.invoked)].outcome = "text") =>
          /\ mt.stage = "returned"
          /\ mt.ret = [kind |-> "text", from |-> mt.invoked[Len(mt.invoked)].provider]
    /\ (mt.stage = "returned" /\ mt.ret = RetNone) =>
          /\ Len(mt.invoked) = Len(mt.chain)
          /\ \A j \in 1..Len(mt.invoked) : mt.invoked[j].outcome \in FailedOutcomes
    /\ (mt.stage = "returned" /\ mt.ret # RetNone) =>
          /\ mt.invoked # <<>>
          /\ mt.invoked[Len(mt.invoked)].outcome = "text"

\* the third provider answered after one raised and one returned ''
C28_Witness ==
    /\ mt.stage = "returned"
    /\ Len(mt.invoked) = 3
    /\ mt.invoked[1].outcome = "raises"
    /\ mt.invoked[2].outcome = "empty"
    /\ mt.ret = [kind |-> "text", from |-> mt.chain[3]]

-----------------------------------------------------------------------------
(***************************************************************************)
(* unified._route_journal: the stages of a journal query.  uq.log lists    *)
(* the services asked, by kind: "direct" a get_by_id of Crossref, "ai" the *)
(* guess of Claude, "free" the search of the free engines.                 *)
(***************************************************************************)
MaxFound == 2

\* the engines of the parallel search, lines 1282-1289
JournalEngines ==
    {"Crossref", "OpenAlex", "Semantic Scholar", "PubMed", "Google Scholar", "arXiv"}

\* a result that has_minimum_data and passed _validate_journal_match
Accepted(engine, doi) == [source_engine |-> engine, doi |-> doi]

\* what the collection loop may leave in results, in completion order
FoundLists ==
    { found \in UNION { [1..n -> { Accepted(e, d) : e \in JournalEngines, d \in {"", "10.1"} }]
                         : n \in 0..MaxFound } :
        \A i, j \in 1..Len(found) : i # j => found[i].source_engine # found[j].source_engine }

InitRoute ==
    /\ uq \in [stage : {"famous"}, famous : BOOLEAN, doi_in_query : BOOLEAN,
                client : BOOLEAN, log : {<<>>}, results : {<<>>}, via : {"none"},
                ret : {Pending}]
    /\ q = [author |-> Li, year |-> "1977", second_author |-> NoName,
            third_author |-> NoName, context |-> NoName]
    /\ env = [engines |-> {}, api_key |-> FALSE, client |-> FALSE]
    /\ pc = "idle"
    /\ fut = [p \in Providers |-> "absent"]
    /\ futRes = [p \in Providers |-> <<>>]
    /\ results = <<>> /\ gpt_results = <<>> /\ calls = <<>>
    /\ ret = Pending /\ exc = None
    /\ sc = IdleSc /\ bt = IdleBt
    /\ mt = IdleMt /\ lk = IdleLk /\ ex = IdleEx

\* lines 1246-1254: the famous papers cache, then Crossref by the DOI it holds
FamousLookup(resp) ==
    /\ uq.stage = "famous"
    /\ uq' =
         IF ~uq.famous THEN [uq EXCEPT !.stage = "doi"]
         ELSE IF resp = "record"
         THEN [uq EXCEPT !.stage = "returned", !.log = Append(@, "direct"),
                         !.via = "famous", !.ret = RetMd(Accepted("", "10.1"))]
         ELSE [uq EXCEPT !.stage = "doi", !.log = Append(@, "direct")]
    /\ UNCHANGED <<engineVars, sc, bt, mt, lk, ex>>

\* lines 1257-1266: a DOI in the query, resolved by Crossref
DoiLookup(resp) ==
    /\ uq.stage = "doi"
    /\ uq' =
         IF ~uq.doi_in_query THEN [uq EXCEPT !.stage = "claude"]
         ELSE IF resp = "record"
         THEN [uq EXCEPT !.stage = "returned", !.log = Append(@, "direct"),
                         !.via = "doi", !.ret = RetMd(Accepted("", "10.1"))]
         ELSE [uq EXCEPT !.stage = "claude", !.log = Append(@, "direct")]
    /\ UNCHANGED <<engineVars, sc, bt, mt, lk, ex>>

\* lines 1270-1276: guess_and_search(query); Claude is asked when a client
\* is configured (claude.guess_citation)
ClaudeFirstGuess(outcome) ==
    /\ uq.stage = "claude"
    /\ ~uq.client => outcome \in {"none", "raises"}
    /\ uq' =
         IF outcome = "record"
         THEN [uq EXCEPT !.stage = "returned", !.via = "claude",
                         !.log = @ \o (IF uq.client THEN <<"ai">> ELSE <<>>),
                         !.ret = RetMd(Accepted("Claude", ""))]
         ELSE [uq EXCEPT !.stage = "parallel",
                         !.log = @ \o (IF uq.client THEN <<"ai">> ELSE <<>>)]
    /\ UNCHANGED <<engineVars, sc, bt, mt, lk, ex>>

\* lines 1279-1302: the six searches and the collection of what they found
ParallelSearch(found, timed_out) ==
    /\ uq.stage = "parallel"
    /\ uq' =
         IF timed_out
         THEN [uq EXCEPT !.stage = "raised", !.log = Append(@, "free"), !.results = found]
         ELSE [uq EXCEPT !.stage = "enrich", !.log = Append(@, "free"), !.results = found]
    /\ UNCHANGED <<engineVars, sc, bt, mt, lk, ex>>

\* lines 1305-1323: a Google Scholar result without DOI takes the DOI of
\* the Crossref record of the same title
enrich(found, matched) ==
    [i \in 1..Len(found) |->
        IF found[i].source_engine = "Google Scholar" /\ found[i].doi = "" /\ matched
        THEN Accepted("Google Scholar + Crossref", "10.2")
        ELSE found[i]]

\* lines 1326-1330: the first result with a DOI, else the first result
best_result(found) ==
    IF \E i \in 1..Len(found) : found[i].doi # ""
    THEN found[CHOOSE i \in 1..Len(found) :
                  /\ found[i].doi # ""
                  /\ \A j \in 1..(i - 1) : found[j].doi = ""]
    ELSE found[1]

\* lines 1305-1332: enrichment, then the result returned
EnrichAndReturn(matched) ==
    /\ uq.stage = "enrich"
    /\ uq' = [uq EXCEPT !.stage = "returned", !.via = "parallel",
                        !.results = enrich(uq.results, matched),
                        !.ret = IF uq.results = <<>> THEN RetNone
                                ELSE RetMd(best_result(enrich(uq.results, matched)))]
    /\ UNCHANGED <<engineVars, sc, bt, mt, lk, ex>>

NextRoute ==
    \/ \E resp \in {"record", "none", "raises"} : FamousLookup(resp)
    \/ \E resp \in {"record", "none", "raises"} : DoiLookup(resp)
    \/ \E outcome \in {"record", "record_without_minimum", "none", "raises"} :
          ClaudeFirstGuess(outcome)
    \/ \E found \in FoundLists, timed_out \in BOOLEAN : ParallelSearch(found, timed_out)
    \/ \E matched \in BOOLEAN : EnrichAndReturn(matched)

SpecRoute == InitRoute /\ [][NextRoute]_vars

\* the place of a kind of service in the order of cost
CostRank(kind) == CASE kind = "direct" -> 1 [] kind = "free" -> 2 [] kind = "ai" -> 3

\* C26: _route_journal asks the services in the order of their cost, direct
\* lookup, then the free engines, then the AI guess: Claude is never asked
\* before the free engines were searched, and neither is asked once a
\* direct lookup gave the record.
C26_CostOrder ==
    /\ \A i, j \in 1..Len(uq.log) : i < j => CostRank(uq.log[i]) <= CostRank(uq.log[j])
    /\ \A i \in 1..Len(uq.log) :
          uq.log[i] = "ai" => \E j \in 1..(i - 1) : uq.log[j] = "free"
    /\ uq.via \in {"famous", "doi"} => \A i \in 1..Len(uq.log) : uq.log[i] = "direct"

-----------------------------------------------------------------------------
(***************************************************************************)
(* app.accept_reference over SessionManager.get and SessionManager.set.    *)
(* Each request runs in a thread of its own; the dicts are objects of one  *)
(* heap, a request holds a reference to the one it works on.               *)
(***************************************************************************)
MaxRequests == 2

\* the requests in flight, each for the reference id of its own number
Requests == 1..MaxRequests

\* the dict the session held from the start, and the one a request makes
SharedDict   == 0
FreshDict(r) == r

NoRef == [present |-> FALSE]
Ref(o) == [present |-> TRUE, obj |-> o]

InitAccept ==
    /\ \E had \in BOOLEAN, other_keys \in BOOLEAN, earlier \in SUBSET {0} :
          bt = [stage |-> "serving",
                \* session['data']['accepted_references']
                stored |-> IF had THEN Ref(SharedDict) ELSE NoRef,
                \* session['data'] has other keys
                other_keys |-> other_keys,
                heap |-> [o \in 0..MaxRequests |-> IF o = SharedDict /\ had THEN earlier ELSE {}],
                at |-> [r \in Requests |-> "get"],
                accepted_refs |-> [r \in Requests |-> NoRef],
                success |-> [r \in Requests |-> FALSE]]
    /\ q = [author |-> Li, year |-> "1977", second_author |-> NoName,
            third_author |-> NoName, context |-> NoName]
    /\ env = [engines |-> {}, api_key |-> FALSE, client |-> FALSE]
    /\ pc = "idle"
    /\ fut = [p \in Providers |-> "absent"]
    /\ futRes = [p \in Providers |-> <<>>]
    /\ results = <<>> /\ gpt_results = <<>> /\ calls = <<>>
    /\ ret = Pending /\ exc = None
    /\ sc = IdleSc /\ uq = IdleUq
    /\ mt = IdleMt /\ lk = IdleLk /\ ex = IdleEx

\* lines 1194-1201: sessions.get(session_id), and 404 on an empty dict
GetSession(r) ==
    /\ bt.stage = "serving" /\ bt.at[r] = "get"
    /\ bt' = IF ~bt.other_keys /\ ~bt.stored.present
             THEN [bt EXCEPT !.at[r] = "done"]
             ELSE [bt EXCEPT !.at[r] = "read"]
    /\ UNCHANGED <<engineVars, sc, uq, mt, lk, ex>>

\* line 1204: session_data.get('accepted_references', {})
ReadAccepted(r) ==
    /\ bt.stage = "serving" /\ bt.at[r] = "read"
    /\ bt' = [bt EXCEPT !.at[r] = "store",
                        !.accepted_refs[r] =
                            IF bt.stored.present THEN bt.stored ELSE Ref(FreshDict(r))]
    /\ UNCHANGED <<engineVars, sc, uq, mt, lk, ex>>

\* lines 1207-1210: accepted_refs[str(reference_id)] = {...}
StoreEntry(r) ==
    /\ bt.stage = "serving" /\ bt.at[r] = "store"
    /\ bt' = [bt EXCEPT !.at[r] = "set",
                        !.heap[bt.accepted_refs[r].obj] = @ \cup {r}]
    /\ UNCHANGED <<engineVars, sc, uq, mt, lk, ex>>

\* line 1213 and SessionManager.set, lines 234-260:
\* session['data']['accepted_references'] = accepted_refs, under the lock
SetSession(r) ==
    /\ bt.stage = "serving" /\ bt.at[r] = "set"
    /\ bt' = [bt EXCEPT !.at[r] = "respond", !.stored = bt.accepted_refs[r]]
    /\ UNCHANGED <<engineVars, sc, uq, mt, lk, ex>>

\* lines 1217-1220: the response reports success
Respond(r) ==
    /\ bt.stage = "serving" /\ bt.at[r] = "respond"
    /\ bt' = [bt EXCEPT !.at[r] = "done", !.success[r] = TRUE]
    /\ UNCHANGED <<engineVars, sc, uq, mt, lk, ex>>

NextAccept ==
    \/ \E r \in Requests : GetSession(r)
    \/ \E r \in Requests : ReadAccepted(r)
    \/ \E r \in Requests : StoreEntry(r)
    \/ \E r \in Requests : SetSession(r)
    \/ \E r \in Requests : Respond(r)

SpecAccept == InitAccept /\ [][NextAccept]_vars

\* the reference ids the session's accepted_references holds
AcceptedIds == IF bt.stored.present THEN bt.heap[bt.stored.obj] ELSE {}

\* C30: once the concurrent accept_reference requests for distinct ids of
\* a live session have all been answered, accepted_references holds the
\* entry of every request that reported success.
C30_NoLostAccept ==
    (\A r \in Requests : bt.at[r] = "done") =>
        \A r \in Requests : bt.success[r] => r \in AcceptedIds

====
